---- MODULE Spec2Model ----
(***************************************************************************)
(* Client-side behaviour of the travel-authorisation forms ("viagens"):    *)
(*   - the itinerary formset controller (initRoteiroFormset): the list of  *)
(*     destinations, the leg cards derived from it, and the per-diem       *)
(*     ("diarias") estimator panel with its idle/loading/done/stale states;*)
(*   - the dashboard refresh (initDashboard / loadPeriod);                 *)
(*   - the autocomplete widget (createAutocomplete) and its debounce.      *)
(* Every action is one event handler, including the microtasks it leaves   *)
(* behind; asynchronous responses are separate actions.                    *)
(***************************************************************************)
EXTENDS Integers, Sequences, FiniteSets, TLC

\* ------------------------------------------------------------------ bounds
\* Largest number of destination entries the user adds in Spec (the code has
\* no limit).
MaxDestinos == 2
\* Largest number of destination entries, and of leg date/time fields filled in
\* at one time, in SpecDatas.
MaxDestinosDatas == 2
MaxFilled == 1
\* Largest number of leg date/time fields filled in at one time in SpecDiarias.
MaxFilledDiarias == 1
\* Cap on per-diem requests in flight (the buttons keep it at one).
MaxPedidos == 2
\* Number of dashboard refresh requests issued in one run.
MaxDashRequests == 3
\* Largest number of destination entries of the page in SpecTrim and in SpecTipo.
MaxTrimDestinos == 3
MaxTipoDestinos == 3
\* Number of focus/input events of the autocomplete input, and the time, in
\* ticks, the clock of SpecAuto runs for.
MaxAcCalls == 3
MaxAcTime == 5
\* the leg-card form's estimate: days of the calendar 0..MaxDia, travelers 0..MaxServidores
MaxDia == 2
MaxServidores == 2
\* digit strings given to the CPF masks have at most MaxCpfDigitos digits
MaxCpfDigitos == 15
\* the travelers picker: a response lists at most MaxSvItems items, at most
\* MaxSvRequests searches and MaxSvLoads preview loads are made
MaxSvItems == 2
MaxSvRequests == 1
MaxSvLoads == 1
\* the modal controller makes at most MaxModalRequests requests, a city select
\* at most MaxCidLoads loads
MaxModalRequests == 3
MaxCidLoads == 2
\* at most MaxCepLookups CEP lookups are made; a masked input is typed in
\* while it holds fewer than MaxMaskDigitos digits
MaxCepLookups == 2
MaxMaskDigitos == 12
\* updateElementIndex is called with the indices 0..MaxIndex
MaxIndex == 11
\* the simulation form holds at most MaxPeriodos periods
MaxPeriodos == 2
\* at most MaxPeriodosEditados of its period cards are edited
MaxPeriodosEditados == 1
\* an RG of at most MaxRgLen characters is typed or pasted
MaxRgLen == 10
\* the driver select starts at most MaxMotoristaLookups lookups
MaxMotoristaLookups == 3

\* The wait of debouncedFetch (260 ms), in clock ticks of 130 ms.
DebounceWait == 2

\* --------------------------------------------------------------- value sets
UFs == {"PR", "DF"}
\* city ids, each belonging to one state
CidadesDe == [uf \in UFs |-> IF uf = "PR" THEN {"c1"} ELSE {"c2"}]
Cidades == UNION {CidadesDe[uf] : uf \in UFs}
\* the states and cities of SpecTipo
UFsTipo == {"PR", "DF", "GO", "MG"}
CidadesTipoDe ==
  [uf \in UFsTipo |->
     CASE uf = "PR" -> {"c1", "c3"}
       [] uf = "DF" -> {"c2"}
       [] uf = "GO" -> {"c4"}
       [] OTHER     -> {"c5"}]
TodasCidades == UNION {CidadesTipoDe[uf] : uf \in UFsTipo}
DateVals == {"v"}
DateFields == {"saida_data", "saida_hora", "chegada_data", "chegada_hora"}
\* Response bodies of the calculation endpoint: a result, and the empty
\* object that an unparsable body of an OK response is replaced by.
Payloads == {"p1", "vazio"}
\* error texts: payload.error of a non-OK response, the default text, and the
\* message of the exception a failed fetch rejects with
ErroServidor == "erro do servidor"
ErroPadrao == "Preencha datas e horas para calcular."
ErroRede == "Failed to fetch"
Periodos == {7, 30, 90}
\* texts typed into the autocomplete input
Terms == {"a", "b"}

VARIABLES
  destinos,       \* the .destino-item entries in DOM order: [uf, cidade, idx]
  sede,           \* the home base selects: [uf, cidade]
  trechos,        \* the .trecho-card leg cards in DOM order
  totalForms,     \* id_trechos-TOTAL_FORMS
  dragItem,       \* position of the entry being dragged, 0 when none
  retornoSaida,   \* retornoSaidaCidade.value
  retornoChegada, \* retornoChegadaCidade.value
  destinosTotal,  \* destinosTotalForms.value
  destinosOrder,  \* destinosOrder.value
  tipoDestino,    \* tipoDestino.value
  formPosted,     \* history: the last form handler that ran collected the form to post it
  diariasState,   \* [hasResult, isStale, isLoading]
  panelState,     \* diariasPanel.dataset.state
  panelVia,       \* values dataset.state took inside the last handler, before its final one
  buttonsDisabled,\* calcularDiariasBtn.disabled and recalcularDiariasBtn.disabled
  calcErro,       \* text of diariasCalcError ("" when hidden)
  resultado,      \* what the result table and totals show: "-" or a payload
  camposOcultos,  \* hidden quantidade/valor fields: "" or a payload
  pedidos,        \* calculation requests in flight: sequence of [hadResultBefore]
  inputsDrifted,  \* history: an input changed while the request in flight, or the one
                  \* whose result is shown, was in flight
  everDone,       \* history: the panel has been in state done
  lastOutcome,    \* history: "ok" or "failed" when the last step settled a request, else ""
  lastGood,       \* history: [resultado, ocultos] right after the last OK response
  dashController, \* fetchDashboardData._controller: a request id, 0 when null
  dashPending,    \* dashboard requests in flight: set of [id, periodo, aborted]
  dashNextId,     \* id of the next dashboard request
  currentPeriod,  \* currentPeriod of initDashboard
  dashShown,      \* [req, periodo] of the payload the KPIs and charts show (req 0:
                  \* the payload embedded in the page)
  dashLoading,    \* root has class is-loading
  dashToasts,     \* number of error toasts raised
  dashOk,         \* history: ids of the requests answered with an OK response
  dashStaleRender,\* history: a response was rendered after a newer request was issued
  acNow,          \* the clock, in ticks
  acTimer,        \* timer of the debounce closure: [armed, due, term]
  acCalls,        \* history: the calls of debouncedFetch, [at, term]
  acRuns,         \* history: the runs of the debounced function, [at, term]
  acPending,      \* autocomplete requests in flight: set of [id, term]
  acNextReq,      \* id of the next autocomplete request
  acItems,        \* items: [req, term] of the response they came with, req 0 when empty
  acOpen,         \* the dropdown is expanded (aria-expanded, is-open)
  acHint,         \* the list shows the hint "Selecione a UF primeiro."
  acInputValue,   \* input.value
  acSelected,     \* text of the select's selected option, "" when none
  acUfOk,         \* the widget is not a city picker, or its related UF is set
  acStaleRender,  \* history: a response was rendered after a newer query was sent
  estTipoDestino,   \* tipoDestinoSelect.value of the leg-card form
  estSaidaData,     \* saida-data of the first card: <<>> when empty, else <<day>>
  estSaidaHora,     \* saida-hora of the first card: <<>> when empty, else <<minute of day>>
  estChegadaData,   \* retornoChegadaDataInput.value
  estChegadaHora,   \* retornoChegadaHoraInput.value
  estServidores,    \* servidoresSelect.selectedOptions.length
  quantidadeDiarias,\* quantidadeDiariasInput.value: the parts joined by " + "
  valorDiarias,     \* valorDiariasInput.value: <<>> when "", else <<cents>>
  diariasPreview,   \* the four texts of the preview
  cpfRaw,           \* the text an edit left in a data-mask="cpf" input
  cpfStage,         \* which input listeners ran on it: "typed", "masked", "formatted"
  cpfMasked,        \* input.value after the listener of viajante_form.js
  cpfFormatted,     \* input.value after the listener of masks.js
  svItems,          \* items of the autocomplete of servidoresSelect (a multiple select)
  svActiveIndex,    \* activeIndex
  svList,           \* the buttons of the list as last rendered: [id, disabled, active]
  svOpen,           \* the dropdown is expanded
  svInputValue,     \* input.value
  svTimer,          \* the debounce timer is armed
  svPending,        \* searches in flight: set of request ids
  svNextReq,        \* id of the next search
  svOptions,        \* values of select.options, in order
  svSelected,       \* values of select.selectedOptions
  svChips,          \* ids of the chips renderServidoresChips rendered
  svLoads,          \* traveler-preview loads in flight: set of [id, ids]
  svNextLoad,       \* id of the next preview load
  svPreview,        \* ids of the travelers viajantesPreview shows
  svKey,            \* history: the key of the keydown the last step handled, else ""
  svCommitted,      \* history: the item the last step passed to selectItem, else ""
  svChanged,        \* history: the last step dispatched a change event on the select
  svToast,          \* history: the last step raised "Servidor ja selecionado."
  unhandled,        \* history: the async functions whose promise was rejected with no handler
  modalRoot,        \* modalRoot.innerHTML: "", "loading" or "modal" (a modal with its form)
  bodyModalOpen,    \* body has class modal-open
  submitLoading,    \* the submit button of the modal's form has data-loading
  modalPending,     \* requests of the modal controller in flight: set of [id, kind]
  modalNextId,      \* id of its next request
  modalFilled,      \* the fields the trigger targets were filled from a created item
  modalToast,       \* history: type of the toast the last step raised, else ""
  modalLast,        \* history: how the last step settled a request, else ""
  cidEstado,        \* estadoSelect.value of a state/city pair of selects
  cidOptions,       \* the states whose cities cidadeSelect lists after "Selecione"
  cidLoads,         \* city-list loads in flight: set of [id, uf]
  cidNextLoad,      \* id of the next city-list load
  cepInput,         \* cepInput.value
  cepTimer,         \* the debounce timer of the CEP input is armed
  endereco,         \* values of the logradouro, bairro, cidade and uf inputs
  cepStatus,        \* cepStatus: [text, isError]
  cepPending,       \* CEP lookups in flight: set of [id, digits]
  cepNextId,        \* id of the next CEP lookup
  previewEndereco,  \* the address fields and CEP the preview was last built from
  cepLast,          \* history: how the last step settled a lookup ("ok", "error"), else ""
  maskKind,         \* data-mask of a masked input: "cpf" or "digits"
  maskValue,        \* input.value
  maskCaret,        \* input.selectionStart (the selection is collapsed)
  maskBefore,       \* history: the text the last edit left, before its input listener ran
  maskStart,        \* history: the caret the last edit left
  maskEvent,        \* history: the last step was an edit with its input event
  idxVariant,       \* which copy of updateElementIndex the page runs
  idxName,          \* item.name of a field of the element
  idxId,            \* item.id of the field
  idxFor,           \* item.htmlFor of the field's label
  idxData,          \* element.dataset.index
  idxBefore,        \* history: name, id and for before the last call
  idxCalled,        \* history: index of the last call, -1 before the first
  simPeriodos,      \* the period cards of the simulation form, with their error
  simError,         \* errorEl.textContent
  simLoading,       \* calcBtn.disabled
  simPending,       \* number of calculation requests of the simulation form in flight
  simResult,        \* what the result card shows ("-" when reset)
  simLast,          \* history: what the last submit did ("sent", "blocked"), else ""
  rgValue,          \* input.value of an input with data-mask "rg"
  rgBefore,         \* history: input.value before the last input event
  rgEvents,         \* history: number of input events the mask has run on
  motoristaSelect,  \* value of the driver select: 0 for "", else the driver id
  motoristaNome,    \* trimmed value of the manual driver-name input
  currentMotorista, \* the driver record held by the form, NoMotorista for null
  motoristaChip,    \* data-id of the chip in the chip list: "", "manual" or an id
  motoristaPreview, \* the motorista_nome and motorista_cpf preview cells
  motoristaPending, \* driver lookups in flight: [n, id]
  motoristaNextReq  \* history: number of the next driver lookup

formVars == <<destinos, sede, trechos, totalForms, dragItem, retornoSaida,
              retornoChegada, destinosTotal, destinosOrder, tipoDestino, formPosted>>
diariasVars == <<diariasState, panelState, panelVia, buttonsDisabled, calcErro,
                 resultado, camposOcultos, pedidos, inputsDrifted, everDone,
                 lastOutcome, lastGood>>
dashVars == <<dashController, dashPending, dashNextId, currentPeriod, dashShown,
              dashLoading, dashToasts, dashOk, dashStaleRender>>
autoVars == <<acNow, acTimer, acCalls, acRuns, acPending, acNextReq, acItems, acOpen,
              acHint, acInputValue, acSelected, acUfOk, acStaleRender>>
estVars == <<estTipoDestino, estSaidaData, estSaidaHora, estChegadaData, estChegadaHora,
             estServidores, quantidadeDiarias, valorDiarias, diariasPreview>>
cpfVars == <<cpfRaw, cpfStage, cpfMasked, cpfFormatted>>
svVars == <<svItems, svActiveIndex, svList, svOpen, svInputValue, svTimer, svPending,
            svNextReq, svOptions, svSelected, svChips, svLoads, svNextLoad, svPreview,
            svKey, svCommitted, svChanged, svToast>>
modalVars == <<modalRoot, bodyModalOpen, submitLoading, modalPending, modalNextId,
               modalFilled, modalToast, modalLast>>
cidVars == <<cidEstado, cidOptions, cidLoads, cidNextLoad>>
cepVars == <<cepInput, cepTimer, endereco, cepStatus, cepPending, cepNextId,
             previewEndereco, cepLast>>
maskVars == <<maskKind, maskValue, maskCaret, maskBefore, maskStart, maskEvent>>
idxVars == <<idxVariant, idxName, idxId, idxFor, idxData, idxBefore, idxCalled>>
simVars == <<simPeriodos, simError, simLoading, simPending, simResult, simLast>>
rgVars == <<rgValue, rgBefore, rgEvents>>
motVars == <<motoristaSelect, motoristaNome, currentMotorista, motoristaChip,
             motoristaPreview, motoristaPending, motoristaNextReq>>
lateVars == <<idxVars, simVars, rgVars, motVars>>

pageVars == <<estVars, cpfVars, svVars, unhandled, modalVars, cidVars, cepVars, maskVars,
              lateVars>>
vars == <<formVars, diariasVars, dashVars, autoVars, pageVars>>

Max(a, b) == IF a >= b THEN a ELSE b

\* ------------------------------------------------------- destinations, legs
IsValidDestino(d) == d.uf # "" /\ d.cidade # ""

\* collectDestinosData().filter((dest) => dest.uf && dest.cidade)
ValidDestinos(ds) == SelectSeq(ds, IsValidDestino)

BlankDates == [f \in DateFields |-> ""]

\* a card cloned from the template: every field blank
NewCard(index) ==
  [index |-> index,
   origem_estado |-> "", origem_cidade |-> "",
   destino_estado |-> "", destino_cidade |-> "",
   datas |-> BlankDates]

\* while (getCards().length < targetCount) append a clone indexed getCards().length
RECURSIVE GrowCards(_, _)
GrowCards(cs, target) ==
  IF Len(cs) < target THEN GrowCards(Append(cs, NewCard(Len(cs))), target) ELSE cs

\* mutant: surplus cards are never removed
ShrinkCardsKeep(cs, target) == cs

\* while (getCards().length > targetCount) remove the last card
RECURSIVE ShrinkCards(_, _)
ShrinkCards(cs, target) ==
  IF Len(cs) > target THEN ShrinkCards(SubSeq(cs, 1, Len(cs) - 1), target) ELSE cs

\* getCards().forEach((card, index) => updateElementIndex(card, index, prefix))
ReindexCards(cs) == [i \in 1..Len(cs) |-> [cs[i] EXCEPT !.index = i - 1]]

\* mutant: every leg starts at the home base
RouteOfFromSede(i, valid, sd) ==
  IF i <= Len(valid)
  THEN [origem_estado |-> sd.uf, origem_cidade |-> sd.cidade,
        destino_estado |-> valid[i].uf, destino_cidade |-> valid[i].cidade]
  ELSE [origem_estado |-> "", origem_cidade |-> "",
        destino_estado |-> "", destino_cidade |-> ""]

\* the route of card number i (1-based) for the valid destinations and home base
RouteOf(i, valid, sd) ==
  IF i <= Len(valid)
  THEN [origem_estado |-> IF i = 1 THEN sd.uf ELSE valid[i - 1].uf,
        origem_cidade |-> IF i = 1 THEN sd.cidade ELSE valid[i - 1].cidade,
        destino_estado |-> valid[i].uf,
        destino_cidade |-> valid[i].cidade]
  ELSE [origem_estado |-> "", origem_cidade |-> "",
        destino_estado |-> "", destino_cidade |-> ""]

\* mutant: the dates of a card are read one position further down the old list
PreservedDatesShifted(i, old) == IF i + 1 <= Len(old) THEN old[i + 1].datas ELSE BlankDates

\* const preserved = preservedDates[index] || {}; field.value = preserved.x || ""
PreservedDates(i, old) == IF i <= Len(old) THEN old[i].datas ELSE BlankDates

TargetCount(ds) == Max(1, Len(ValidDestinos(ds)))

\* regenerateTrechos, the part that rebuilds the cards
RegenerateCards(ds, sd, old) ==
  LET valid == ValidDestinos(ds)
      sized == ReindexCards(ShrinkCards(GrowCards(old, TargetCount(ds)), TargetCount(ds)))
  IN [i \in 1..Len(sized) |->
        LET r == RouteOf(i, valid, sd)
        IN [index |-> sized[i].index,
            origem_estado |-> r.origem_estado,
            origem_cidade |-> r.origem_cidade,
            destino_estado |-> r.destino_estado,
            destino_cidade |-> r.destino_cidade,
            datas |-> PreservedDates(i, old)]]

\* mutant: TOTAL_FORMS keeps the value the page was rendered with
SyncTrechosTotalInitial(cs) == 1

\* syncTrechosTotal
SyncTrechosTotal(cs) == Len(cs)

IsDestinoEmpty(d) == ~(d.uf # "" \/ d.cidade # "")

\* mutant: the last entry is removed too when it is empty
RECURSIVE TrimTrailingEmptyDestinosAll(_)
TrimTrailingEmptyDestinosAll(ds) ==
  IF Len(ds) > 0 /\ IsDestinoEmpty(ds[Len(ds)])
  THEN TrimTrailingEmptyDestinosAll(SubSeq(ds, 1, Len(ds) - 1))
  ELSE ds

\* mutant: every empty entry is removed, wherever it is
TrimEveryEmptyDestino(ds) ==
  IF \A i \in 1..Len(ds) : IsDestinoEmpty(ds[i])
  THEN SubSeq(ds, 1, 1)
  ELSE SelectSeq(ds, LAMBDA d : ~IsDestinoEmpty(d))

\* trimTrailingEmptyDestinos: the entries it leaves (its syncDestinos is
\* applied by the caller)
RECURSIVE TrimTrailingEmptyDestinos(_)
TrimTrailingEmptyDestinos(ds) ==
  IF Len(ds) > 1 /\ IsDestinoEmpty(ds[Len(ds)])
  THEN TrimTrailingEmptyDestinos(SubSeq(ds, 1, Len(ds) - 1))
  ELSE ds

\* getDestinosItems().forEach((item, index) => updateElementIndex(item, index, "destinos"))
ReindexDestinos(ds) == [i \in 1..Len(ds) |-> [ds[i] EXCEPT !.idx = i - 1]]

RemoveAt(s, i) == SubSeq(s, 1, i - 1) \o SubSeq(s, i + 1, Len(s))
InsertAt(s, i, x) == SubSeq(s, 1, i - 1) \o <<x>> \o SubSeq(s, i, Len(s))

\* overItem.after(dragItem) / overItem.before(dragItem): the dragged entry at
\* position from is taken out and put right after or before the entry at over
MoveDestino(ds, from, over, after) ==
  LET rest == RemoveAt(ds, from)
      o == IF over > from THEN over - 1 ELSE over
  IN InsertAt(rest, IF after THEN o + 1 ELSE o, ds[from])

\* position of the dragged entry after MoveDestino
MovedTo(from, over, after) ==
  LET o == IF over > from THEN over - 1 ELSE over
  IN IF after THEN o + 1 ELSE o

FilledCount(cs) ==
  Cardinality({<<i, f>> \in (1..Len(cs)) \X DateFields : cs[i].datas[f] # ""})

\* mutant: the city is left as it is
ClearCitySelectKeep(d) == d

\* clearCitySelect
ClearCitySelect(d) == [d EXCEPT !.cidade = ""]

\* ------------------------------------------------- labels, return leg, order
\* A text is kept as the sequence of its parts between "/" (the empty text is
\* the empty sequence), so that includes("/") and split("/") are computed.
\* The text shown for each city: the autocomplete input, or the selected option.
NomeDe ==
  [c \in TodasCidades |->
     CASE c = "c1" -> <<"Curitiba">>
       [] c = "c2" -> <<"Brasília">>
       [] c = "c3" -> <<"Londrina">>
       [] c = "c4" -> <<"Goiânia", "GO">>
       [] OTHER    -> <<"Brasília de Minas">>]

\* getSelectLabel: nothing is shown for a select without a selection
GetSelectLabel(cidade) == IF cidade = "" THEN <<>> ELSE NomeDe[cidade]

\* formatLabel
FormatLabel(cidade, estado) ==
  IF Len(cidade) > 1 THEN cidade
  ELSE IF cidade # <<>> /\ estado # "" THEN cidade \o <<estado>>
  ELSE IF cidade # <<>> THEN cidade
  ELSE IF estado # "" THEN <<estado>>
  ELSE <<>>

\* getSedeLabel
GetSedeLabel(sd) == FormatLabel(GetSelectLabel(sd.cidade), sd.uf)

\* collectDestinosData
CollectDestinosData(ds) ==
  [i \in 1..Len(ds) |->
     [uf |-> ds[i].uf, cidade |-> ds[i].cidade,
      label |-> FormatLabel(GetSelectLabel(ds[i].cidade), ds[i].uf)]]

\* mutant: the return leg leaves from the first valid destination
RetornoSaidaFirst(ds) ==
  LET valid == ValidDestinos(CollectDestinosData(ds))
  IN IF Len(valid) = 0 THEN <<>> ELSE valid[1].label

\* updateRetornoFields: retornoSaidaCidadeInput.value = lastDestino?.label || ""
RetornoSaida(ds) ==
  LET valid == ValidDestinos(CollectDestinosData(ds))
  IN IF Len(valid) = 0 THEN <<>> ELSE valid[Len(valid)].label

\* updateRetornoFields: retornoChegadaCidadeInput.value = sedeLabel
RetornoChegada(sd) == GetSedeLabel(sd)

\* updateDestinosTotal
UpdateDestinosTotal(ds) == Len(ds)

RECURSIVE JoinComma(_)
JoinComma(strs) ==
  IF Len(strs) = 0 THEN ""
  ELSE IF Len(strs) = 1 THEN strs[1]
  ELSE strs[1] \o "," \o JoinComma(Tail(strs))

\* mutant: the order field lists the positions of the entries
SyncDestinosOrderPositions(ds) == JoinComma([i \in 1..Len(ds) |-> ToString(i - 1)])

\* syncDestinosOrder: the data-index attributes, comma-joined
SyncDestinosOrder(ds) == JoinComma([i \in 1..Len(ds) |-> ToString(ds[i].idx)])

\* ------------------------------------------------------ destination category
CAPITAIS ==
  {"ARACAJU", "BELEM", "BELO HORIZONTE", "BOA VISTA", "BRASILIA", "CAMPO GRANDE",
   "CUIABA", "CURITIBA", "FLORIANOPOLIS", "FORTALEZA", "GOIANIA", "JOAO PESSOA",
   "MACAPA", "MACEIO", "MANAUS", "NATAL", "PALMAS", "PORTO ALEGRE", "PORTO VELHO",
   "RECIFE", "RIO BRANCO", "RIO DE JANEIRO", "SALVADOR", "SAO LUIS", "SAO PAULO",
   "TERESINA", "VITORIA"}

\* normalizeCityName: accents stripped, upper case, trimmed
NormalizeCityName(value) ==
  CASE value = "Curitiba" -> "CURITIBA"
    [] value = "Brasília" -> "BRASILIA"
    [] value = "Londrina" -> "LONDRINA"
    [] value = "Goiânia" -> "GOIANIA"
    [] value = "Brasília de Minas" -> "BRASILIA DE MINAS"
    [] OTHER -> value

\* normalizeCityName((destino.label || "").split("/")[0])
CidadeBase(label) == NormalizeCityName(IF label = <<>> THEN "" ELSE label[1])

\* mutant: the first capital found decides
RECURSIVE InferLoopFirstCapital(_, _, _)
InferLoopFirstCapital(valid, k, temCapital) ==
  IF k > Len(valid)
  THEN "INTERIOR"
  ELSE IF valid[k].uf = "DF" /\ CidadeBase(valid[k].label) = "BRASILIA"
       THEN "BRASILIA"
       ELSE IF CidadeBase(valid[k].label) \in CAPITAIS
            THEN "CAPITAL"
            ELSE InferLoopFirstCapital(valid, k + 1, temCapital)

\* inferTipoDestino: the loop over the valid destinations, from entry k on
RECURSIVE InferLoop(_, _, _)
InferLoop(valid, k, temCapital) ==
  IF k > Len(valid)
  THEN IF temCapital THEN "CAPITAL" ELSE "INTERIOR"
  ELSE IF valid[k].uf = "DF" /\ CidadeBase(valid[k].label) = "BRASILIA"
       THEN "BRASILIA"
       ELSE InferLoop(valid, k + 1, temCapital \/ CidadeBase(valid[k].label) \in CAPITAIS)

\* inferTipoDestino
InferTipoDestino(ds) ==
  LET valid == ValidDestinos(CollectDestinosData(ds))
  IN IF Len(valid) = 0 THEN "" ELSE InferLoop(valid, 1, FALSE)

\* ------------------------------------------------------ per-diem estimator
\* The estimator as the handlers see it: diariasState, the panel's dataset
\* state (with the values it takes during the handler), the buttons, the
\* inline error, the rendered result and the hidden fields.
Estimator ==
  [hasResult |-> diariasState.hasResult,
   isStale |-> diariasState.isStale,
   isLoading |-> diariasState.isLoading,
   panel |-> panelState,
   trace |-> <<panelState>>,
   btn |-> buttonsDisabled,
   erro |-> calcErro,
   resultado |-> resultado,
   ocultos |-> camposOcultos]

\* setPanelDatasetState
SetPanelDatasetState(e, stateName) ==
  [e EXCEPT !.panel = stateName, !.trace = Append(e.trace, stateName)]

\* setCalculoErro
SetCalculoErro(e, text) == [e EXCEPT !.erro = text]

\* resetDiariasData
ResetDiariasData(e, clearHiddenFields) ==
  [e EXCEPT !.resultado = "-",
            !.ocultos = IF clearHiddenFields THEN "" ELSE e.ocultos]

\* mutant: the buttons are never disabled
SetButtonsLoadingNever(e, isLoading) == [e EXCEPT !.btn = FALSE]

\* setButtonsLoading
SetButtonsLoading(e, isLoading) == [e EXCEPT !.btn = isLoading]

\* setDiariasIdle
SetDiariasIdle(e) ==
  SetPanelDatasetState(
    SetButtonsLoading(
      [e EXCEPT !.hasResult = FALSE, !.isStale = FALSE, !.isLoading = FALSE],
      FALSE),
    "idle")

\* mutant: entering loading keeps the stale flag
SetDiariasLoadingKeepStale(e) ==
  SetPanelDatasetState(SetButtonsLoading([e EXCEPT !.isLoading = TRUE], TRUE), "loading")

\* setDiariasLoading
SetDiariasLoading(e) ==
  SetPanelDatasetState(
    SetButtonsLoading([e EXCEPT !.isStale = FALSE, !.isLoading = TRUE], TRUE),
    "loading")

\* setDiariasDone
SetDiariasDone(e) ==
  SetPanelDatasetState(
    SetButtonsLoading(
      [e EXCEPT !.hasResult = TRUE, !.isStale = FALSE, !.isLoading = FALSE],
      FALSE),
    "done")

\* setDiariasStale
SetDiariasStale(e) ==
  IF ~e.hasResult
  THEN SetDiariasIdle(e)
  ELSE SetPanelDatasetState(
         SetButtonsLoading(
           [e EXCEPT !.hasResult = TRUE, !.isStale = TRUE, !.isLoading = FALSE],
           FALSE),
         "stale")

\* renderDiariasResultado: an empty payload renders no rows, "-" totals and
\* blank hidden fields
RenderDiariasResultado(e, payload) ==
  SetDiariasDone(
    SetCalculoErro(
      [e EXCEPT !.resultado = IF payload = "vazio" THEN "-" ELSE payload,
                !.ocultos = IF payload = "vazio" THEN "" ELSE payload],
      ""))

\* mutant: an input change always puts the panel back in idle
InvalidateDiariasIdle(e) ==
  LET e1 == SetCalculoErro(e, "")
  IN IF e1.isLoading THEN e1 ELSE SetDiariasIdle(e1)

\* invalidateDiarias
InvalidateDiarias(e) ==
  LET e1 == SetCalculoErro(e, "")
  IN IF e1.isLoading THEN e1
     ELSE IF e1.hasResult THEN SetDiariasStale(e1)
     ELSE SetDiariasIdle(e1)

\* mutant: a failure only shows the error
CalculationFailedStuck(e, hadResultBefore, message) ==
  SetCalculoErro(e, IF message # "" THEN message ELSE ErroPadrao)

\* mutant: a failure always takes the branch of a first calculation
CalculationFailedIdle(e, hadResultBefore, message) ==
  SetCalculoErro(SetDiariasIdle(ResetDiariasData(e, FALSE)),
                 IF message # "" THEN message ELSE ErroPadrao)

\* mutant: a failure clears the rendered result before marking it stale
CalculationFailedReset(e, hadResultBefore, message) ==
  LET e1 == IF hadResultBefore
            THEN SetDiariasStale([ResetDiariasData(e, TRUE) EXCEPT !.hasResult = TRUE])
            ELSE SetDiariasIdle(ResetDiariasData(e, FALSE))
  IN SetCalculoErro(e1, IF message # "" THEN message ELSE ErroPadrao)

\* the catch block of requestDiariasCalculation
CalculationFailed(e, hadResultBefore, message) ==
  LET e1 == IF hadResultBefore
            THEN SetDiariasStale([e EXCEPT !.hasResult = TRUE])
            ELSE SetDiariasIdle(ResetDiariasData(e, FALSE))
  IN SetCalculoErro(e1, IF message # "" THEN message ELSE ErroPadrao)

\* const message = payload?.error || "Preencha datas e horas para calcular."
NotOkMessage(error) == IF error # "" THEN error ELSE ErroPadrao

\* the estimator after a handler, written back
ApplyEstimator(e) ==
  /\ diariasState' = [hasResult |-> e.hasResult, isStale |-> e.isStale,
                      isLoading |-> e.isLoading]
  /\ panelState' = e.panel
  /\ panelVia' = SubSeq(e.trace, 2, Len(e.trace) - 1)
  /\ buttonsDisabled' = e.btn
  /\ calcErro' = e.erro
  /\ resultado' = e.resultado
  /\ camposOcultos' = e.ocultos
  /\ everDone' = (everDone \/ \E k \in 1..Len(e.trace) : k > 1 /\ e.trace[k] = "done")


\* --------------------------------------------------------- form handlers
\* the step settles no request
NoSettle == lastOutcome' = "" /\ UNCHANGED lastGood

\* regenerateTrechos on the destinations ds and home base sd: the cards,
\* TOTAL_FORMS, the return leg and, from invalidateDiarias, the destination
\* category (the rest of invalidateDiarias is applied by the caller)
RegenerateTrechos(ds, sd) ==
  /\ destinos' = ds
  /\ sede' = sd
  /\ trechos' = RegenerateCards(ds, sd, trechos)
  /\ totalForms' = SyncTrechosTotal(RegenerateCards(ds, sd, trechos))
  /\ retornoSaida' = RetornoSaida(ds)
  /\ retornoChegada' = RetornoChegada(sd)
  /\ tipoDestino' = InferTipoDestino(ds)

\* syncDestinos on the entries ds: updateDestinosTotal, syncDestinosOrder
SyncDestinos(ds) ==
  /\ destinosTotal' = UpdateDestinosTotal(ds)
  /\ destinosOrder' = SyncDestinosOrder(ds)

\* the handler is not one that collects the form to post it
NotPosted == formPosted' = FALSE

\* an input of the form changed: remember whether a request was in flight
InputChanged == inputsDrifted' = (Len(pedidos) > 0)

\* addDestinoItem (click on addDestinoBtn)
AddDestino(limit) ==
  /\ dragItem = 0
  /\ Len(destinos) < limit
  /\ RegenerateTrechos(
       Append(destinos, [uf |-> "", cidade |-> "", idx |-> Len(destinos)]), sede)
  /\ SyncDestinos(Append(destinos, [uf |-> "", cidade |-> "", idx |-> Len(destinos)]))
  /\ NotPosted
  /\ ApplyEstimator(InvalidateDiarias(Estimator))
  /\ InputChanged
  /\ UNCHANGED <<dragItem, pedidos>>
  /\ NoSettle
  /\ UNCHANGED <<dashVars, autoVars, pageVars>>

\* change of a destination's state select: the city is cleared
DestinoEstadoChange(i, uf) ==
  /\ dragItem = 0
  /\ i \in 1..Len(destinos)
  /\ uf # destinos[i].uf
  /\ RegenerateTrechos(
       [destinos EXCEPT ![i] = ClearCitySelect([destinos[i] EXCEPT !.uf = uf])], sede)
  /\ UNCHANGED <<destinosTotal, destinosOrder>>
  /\ NotPosted
  /\ ApplyEstimator(InvalidateDiarias(Estimator))
  /\ InputChanged
  /\ UNCHANGED <<dragItem, pedidos>>
  /\ NoSettle
  /\ UNCHANGED <<dashVars, autoVars, pageVars>>

\* change of a destination's city select (a city is offered once a state is set)
DestinoCidadeChange(i, cidade) ==
  /\ dragItem = 0
  /\ i \in 1..Len(destinos)
  /\ cidade # destinos[i].cidade
  /\ cidade # "" => destinos[i].uf # "" /\ cidade \in CidadesDe[destinos[i].uf]
  /\ RegenerateTrechos([destinos EXCEPT ![i].cidade = cidade], sede)
  /\ UNCHANGED <<destinosTotal, destinosOrder>>
  /\ NotPosted
  /\ ApplyEstimator(InvalidateDiarias(Estimator))
  /\ InputChanged
  /\ UNCHANGED <<dragItem, pedidos>>
  /\ NoSettle
  /\ UNCHANGED <<dashVars, autoVars, pageVars>>

\* click on an entry's remove button
RemoveDestino(i) ==
  /\ dragItem = 0
  /\ i \in 1..Len(destinos)
  /\ IF Len(destinos) <= 1
     THEN \* the only entry is cleared; the change event is dispatched on the
          \* city select when there is one, which regenerates
          /\ RegenerateTrechos([destinos EXCEPT ![i].uf = "", ![i].cidade = ""], sede)
          /\ UNCHANGED <<destinosTotal, destinosOrder>>
     ELSE /\ RegenerateTrechos(ReindexDestinos(RemoveAt(destinos, i)), sede)
          /\ SyncDestinos(ReindexDestinos(RemoveAt(destinos, i)))
  /\ NotPosted
  /\ ApplyEstimator(InvalidateDiarias(Estimator))
  /\ InputChanged
  /\ UNCHANGED <<dragItem, pedidos>>
  /\ NoSettle
  /\ UNCHANGED <<dashVars, autoVars, pageVars>>

\* dragstart on the handle of entry i
DragStart(i) ==
  /\ dragItem = 0
  /\ i \in 1..Len(destinos)
  /\ dragItem' = i
  /\ ApplyEstimator(Estimator)
  /\ UNCHANGED <<destinos, sede, trechos, totalForms, pedidos, inputsDrifted>>
  /\ UNCHANGED <<retornoSaida, retornoChegada, destinosTotal, destinosOrder, tipoDestino>>
  /\ NotPosted
  /\ NoSettle
  /\ UNCHANGED <<dashVars, autoVars, pageVars>>

\* dragover on entry over, in its lower (after) or upper half
DragOver(over, after) ==
  /\ dragItem # 0
  /\ over \in 1..Len(destinos)
  /\ over # dragItem
  /\ destinos' = MoveDestino(destinos, dragItem, over, after)
  /\ dragItem' = MovedTo(dragItem, over, after)
  /\ ApplyEstimator(Estimator)
  /\ inputsDrifted' = IF destinos' # destinos THEN Len(pedidos) > 0 ELSE inputsDrifted
  /\ UNCHANGED <<sede, trechos, totalForms, pedidos>>
  /\ UNCHANGED <<retornoSaida, retornoChegada, destinosTotal, destinosOrder, tipoDestino>>
  /\ NotPosted
  /\ NoSettle
  /\ UNCHANGED <<dashVars, autoVars, pageVars>>

\* dragend: indices are kept, syncDestinos, the legs are regenerated
DragEnd ==
  /\ dragItem' = 0
  /\ SyncDestinos(destinos)
  /\ RegenerateTrechos(destinos, sede)
  /\ NotPosted
  /\ ApplyEstimator(InvalidateDiarias(Estimator))
  /\ UNCHANGED <<pedidos, inputsDrifted>>
  /\ NoSettle
  /\ UNCHANGED <<dashVars, autoVars, pageVars>>

\* change of sedeUf: clearCitySelect(sedeCidadeSelect), regenerateTrechos
SedeUfChange(uf) ==
  /\ dragItem = 0
  /\ uf # sede.uf
  /\ RegenerateTrechos(destinos, ClearCitySelect([sede EXCEPT !.uf = uf]))
  /\ UNCHANGED <<destinosTotal, destinosOrder>>
  /\ NotPosted
  /\ ApplyEstimator(InvalidateDiarias(Estimator))
  /\ InputChanged
  /\ UNCHANGED <<dragItem, pedidos>>
  /\ NoSettle
  /\ UNCHANGED <<dashVars, autoVars, pageVars>>

\* change of sedeCidade: regenerateTrechos
SedeCidadeChange(cidade) ==
  /\ dragItem = 0
  /\ cidade # sede.cidade
  /\ cidade # "" => sede.uf # "" /\ cidade \in CidadesDe[sede.uf]
  /\ RegenerateTrechos(destinos, [sede EXCEPT !.cidade = cidade])
  /\ UNCHANGED <<destinosTotal, destinosOrder>>
  /\ NotPosted
  /\ ApplyEstimator(InvalidateDiarias(Estimator))
  /\ InputChanged
  /\ UNCHANGED <<dragItem, pedidos>>
  /\ NoSettle
  /\ UNCHANGED <<dashVars, autoVars, pageVars>>

\* change of a date or time field of card i (listener: invalidateDiarias)
LegDateChange(i, f, v, limit) ==
  /\ dragItem = 0
  /\ i \in 1..Len(trechos)
  /\ v # trechos[i].datas[f]
  /\ v # "" => FilledCount(trechos) < limit
  /\ trechos' = [trechos EXCEPT ![i].datas[f] = v]
  /\ tipoDestino' = InferTipoDestino(destinos)
  /\ ApplyEstimator(InvalidateDiarias(Estimator))
  /\ InputChanged
  /\ UNCHANGED <<destinos, sede, totalForms, dragItem, pedidos>>
  /\ UNCHANGED <<retornoSaida, retornoChegada, destinosTotal, destinosOrder>>
  /\ NotPosted
  /\ NoSettle
  /\ UNCHANGED <<dashVars, autoVars, pageVars>>

\* change of a return date/time input or of the traveler selection
\* (listener: invalidateDiarias)
OtherInputChange ==
  /\ dragItem = 0
  /\ tipoDestino' = InferTipoDestino(destinos)
  /\ ApplyEstimator(InvalidateDiarias(Estimator))
  /\ InputChanged
  /\ UNCHANGED <<destinos, sede, trechos, totalForms, dragItem, pedidos>>
  /\ UNCHANGED <<retornoSaida, retornoChegada, destinosTotal, destinosOrder>>
  /\ NotPosted
  /\ NoSettle
  /\ UNCHANGED <<dashVars, autoVars, pageVars>>

\* submit of roteiroForm: trimTrailingEmptyDestinos, regenerateTrechos,
\* syncTipoDestino, syncDestinosOrder
Submit ==
  /\ dragItem = 0
  /\ RegenerateTrechos(TrimTrailingEmptyDestinos(destinos), sede)
  /\ SyncDestinos(TrimTrailingEmptyDestinos(destinos))
  /\ formPosted' = TRUE
  /\ ApplyEstimator(InvalidateDiarias(Estimator))
  /\ inputsDrifted' = IF destinos' # destinos THEN Len(pedidos) > 0 ELSE inputsDrifted
  /\ UNCHANGED <<dragItem, pedidos>>
  /\ NoSettle
  /\ UNCHANGED <<dashVars, autoVars, pageVars>>

\* requestDiariasCalculation up to its await (click on calcular / recalcular;
\* a disabled button fires no click)
RequestDiariasCalculation ==
  /\ dragItem = 0
  /\ ~buttonsDisabled
  /\ Len(pedidos) < MaxPedidos
  /\ RegenerateTrechos(TrimTrailingEmptyDestinos(destinos), sede)
  /\ SyncDestinos(TrimTrailingEmptyDestinos(destinos))
  /\ formPosted' = TRUE
  /\ LET e1 == InvalidateDiarias(Estimator)
         hadResultBefore == e1.hasResult
     IN /\ ApplyEstimator(SetDiariasLoading(SetCalculoErro(e1, "")))
        /\ pedidos' = Append(pedidos, [hadResultBefore |-> hadResultBefore])
  /\ inputsDrifted' = FALSE
  /\ UNCHANGED dragItem
  /\ NoSettle
  /\ UNCHANGED <<dashVars, autoVars, pageVars>>

\* request k settles with an OK response carrying payload
CalculationOk(k, payload) ==
  /\ k \in 1..Len(pedidos)
  /\ ApplyEstimator(RenderDiariasResultado(Estimator, payload))
  /\ pedidos' = RemoveAt(pedidos, k)
  /\ UNCHANGED <<formVars, inputsDrifted>>
  /\ lastOutcome' = "ok"
  /\ lastGood' = [resultado |-> resultado', ocultos |-> camposOcultos']
  /\ UNCHANGED <<dashVars, autoVars, pageVars>>

\* request k settles with a non-OK response whose body has the error text
\* error ("" when it has none or cannot be parsed)
CalculationNotOk(k, error) ==
  /\ k \in 1..Len(pedidos)
  /\ ApplyEstimator(
       CalculationFailed(Estimator, pedidos[k].hadResultBefore, NotOkMessage(error)))
  /\ pedidos' = RemoveAt(pedidos, k)
  /\ inputsDrifted' = FALSE
  /\ UNCHANGED formVars
  /\ lastOutcome' = "failed"
  /\ UNCHANGED lastGood
  /\ UNCHANGED <<dashVars, autoVars, pageVars>>

\* request k fails in fetch, which rejects with an error carrying message
CalculationNetworkError(k, message) ==
  /\ k \in 1..Len(pedidos)
  /\ ApplyEstimator(
       CalculationFailed(Estimator, pedidos[k].hadResultBefore, message))
  /\ pedidos' = RemoveAt(pedidos, k)
  /\ inputsDrifted' = FALSE
  /\ UNCHANGED formVars
  /\ lastOutcome' = "failed"
  /\ UNCHANGED lastGood
  /\ UNCHANGED <<dashVars, autoVars, pageVars>>

\* ---------------------------------------------------------------- dashboard
InitDash ==
  /\ dashController = 0
  /\ dashPending = {}
  /\ dashNextId = 1
  /\ currentPeriod = 30
  /\ dashShown = [req |-> 0, periodo |-> 30]
  /\ dashLoading = FALSE
  /\ dashToasts = 0
  /\ dashOk = {}
  /\ dashStaleRender = FALSE

\* fetchDashboardData._controller?.abort?.(): the fetch that was given the
\* controller's signal rejects
AbortController(pending, controller) ==
  {IF r.id = controller THEN [r EXCEPT !.aborted = TRUE] ELSE r : r \in pending}

\* the rejection of an aborted fetch is handled in a microtask, before any
\* other event
AbortedWaiting == \E r \in dashPending : r.aborted

\* finally { root.classList.remove("is-loading"); fetchDashboardData._controller = null; }
LoadFinally ==
  /\ dashLoading' = FALSE
  /\ dashController' = 0

\* click on a period button: loadPeriod(periodo) up to its await
LoadPeriod(periodo) ==
  /\ ~AbortedWaiting
  /\ dashNextId <= MaxDashRequests
  /\ periodo # currentPeriod
  /\ dashPending' = AbortController(dashPending, dashController)
                      \cup {[id |-> dashNextId, periodo |-> periodo, aborted |-> FALSE]}
  /\ dashController' = dashNextId
  /\ dashNextId' = dashNextId + 1
  /\ currentPeriod' = periodo
  /\ dashLoading' = TRUE
  /\ UNCHANGED <<dashShown, dashToasts, dashOk, dashStaleRender>>
  /\ UNCHANGED <<formVars, diariasVars, autoVars, pageVars>>

\* the aborted request r: await fetch throws, catch raises the toast, finally
LoadAborted(r) ==
  /\ r \in dashPending
  /\ r.aborted
  /\ dashPending' = dashPending \ {r}
  /\ dashToasts' = dashToasts + 1
  /\ LoadFinally
  /\ UNCHANGED <<dashNextId, currentPeriod, dashShown, dashOk, dashStaleRender>>
  /\ UNCHANGED <<formVars, diariasVars, autoVars, pageVars>>

\* request r is answered with an OK response: updateAll(payload), finally
LoadOk(r) ==
  /\ ~AbortedWaiting
  /\ r \in dashPending
  /\ dashPending' = dashPending \ {r}
  /\ dashShown' = [req |-> r.id, periodo |-> r.periodo]
  /\ dashOk' = dashOk \cup {r.id}
  /\ dashStaleRender' = (dashStaleRender \/ r.id # dashNextId - 1)
  /\ LoadFinally
  /\ UNCHANGED <<dashNextId, currentPeriod, dashToasts>>
  /\ UNCHANGED <<formVars, diariasVars, autoVars, pageVars>>

\* request r fails (network failure, non-OK status, unparsable body): toast, finally
LoadFailed(r) ==
  /\ ~AbortedWaiting
  /\ r \in dashPending
  /\ dashPending' = dashPending \ {r}
  /\ dashToasts' = dashToasts + 1
  /\ LoadFinally
  /\ UNCHANGED <<dashNextId, currentPeriod, dashShown, dashOk, dashStaleRender>>
  /\ UNCHANGED <<formVars, diariasVars, autoVars, pageVars>>

\* ------------------------------------------------------------- autocomplete
InitAuto ==
  /\ acNow = 0
  /\ acTimer = [armed |-> FALSE, due |-> 0, term |-> ""]
  /\ acCalls = <<>>
  /\ acRuns = <<>>
  /\ acPending = {}
  /\ acNextReq = 1
  /\ acItems = [req |-> 0, term |-> ""]
  /\ acOpen = FALSE
  /\ acHint = FALSE
  /\ acInputValue = ""
  /\ acSelected = ""
  /\ acUfOk = TRUE
  /\ acStaleRender = FALSE

\* mutant: a call made while a timer is armed leaves that timer as it is
DebounceKeepFirst(timer, now, term) ==
  IF timer.armed THEN timer ELSE [armed |-> TRUE, due |-> now + DebounceWait, term |-> term]

\* debounce: clearTimeout(timer); timer = setTimeout(() => fn(...args), wait)
Debounce(timer, now, term) == [armed |-> TRUE, due |-> now + DebounceWait, term |-> term]

\* the timer has expired: its callback runs before any event that arrives later
AcTimerDue == acTimer.armed /\ acTimer.due <= acNow

\* debouncedFetch(term)
DebouncedFetch(term) ==
  /\ acTimer' = Debounce(acTimer, acNow, term)
  /\ acCalls' = Append(acCalls, [at |-> acNow, term |-> term])

\* clearList
ClearList ==
  /\ acItems' = [req |-> 0, term |-> ""]
  /\ acOpen' = FALSE
  /\ acHint' = FALSE

\* input event: the user changed the text to term
AcInput(term) ==
  /\ ~AcTimerDue
  /\ Len(acCalls) < MaxAcCalls
  /\ term # acInputValue
  /\ acInputValue' = term
  /\ DebouncedFetch(term)
  /\ UNCHANGED <<acNow, acRuns, acPending, acNextReq, acItems, acOpen, acHint,
                 acSelected, acUfOk, acStaleRender>>
  /\ UNCHANGED <<formVars, diariasVars, dashVars, pageVars>>

\* focus event: the text of the selected option is put back, then debouncedFetch
AcFocus ==
  /\ ~AcTimerDue
  /\ Len(acCalls) < MaxAcCalls
  /\ acInputValue' = IF acSelected # "" THEN acSelected ELSE acInputValue
  /\ DebouncedFetch(IF acSelected # "" THEN acSelected ELSE acInputValue)
  /\ UNCHANGED <<acNow, acRuns, acPending, acNextReq, acItems, acOpen, acHint,
                 acSelected, acUfOk, acStaleRender>>
  /\ UNCHANGED <<formVars, diariasVars, dashVars, pageVars>>

\* time passes, unless a timer has expired
AcTick ==
  /\ ~AcTimerDue
  /\ acNow < MaxAcTime
  /\ acNow' = acNow + 1
  /\ UNCHANGED <<acTimer, acCalls, acRuns, acPending, acNextReq, acItems, acOpen,
                 acHint, acInputValue, acSelected, acUfOk, acStaleRender>>
  /\ UNCHANGED <<formVars, diariasVars, dashVars, pageVars>>

\* the timer's callback: fetchItems(term) up to its await, or the hint when
\* the related UF is missing
AcTimerFire ==
  /\ AcTimerDue
  /\ acTimer' = [acTimer EXCEPT !.armed = FALSE]
  /\ acRuns' = Append(acRuns, [at |-> acNow, term |-> acTimer.term])
  /\ IF acUfOk
     THEN /\ acPending' = acPending \cup {[id |-> acNextReq, term |-> acTimer.term]}
          /\ acNextReq' = acNextReq + 1
          /\ UNCHANGED <<acOpen, acHint>>
     ELSE /\ acHint' = TRUE
          /\ acOpen' = TRUE
          /\ UNCHANGED <<acPending, acNextReq>>
  /\ UNCHANGED <<acNow, acCalls, acItems, acInputValue, acSelected, acUfOk, acStaleRender>>
  /\ UNCHANGED <<formVars, diariasVars, dashVars, pageVars>>

\* the response of request r arrives: items = data.results || [], renderItems
AcResponseOk(r, hasItems) ==
  /\ r \in acPending
  /\ acPending' = acPending \ {r}
  /\ IF hasItems
     THEN /\ acItems' = [req |-> r.id, term |-> r.term]
          /\ acOpen' = TRUE
          /\ acHint' = FALSE
     ELSE ClearList
  /\ acStaleRender' = (acStaleRender \/ r.id # acNextReq - 1)
  /\ UNCHANGED <<acNow, acTimer, acCalls, acRuns, acNextReq, acInputValue, acSelected, acUfOk>>
  /\ UNCHANGED <<formVars, diariasVars, dashVars, pageVars>>

\* request r fails (fetch rejects, or the body is not JSON): catch, clearList
AcResponseFail(r) ==
  /\ r \in acPending
  /\ acPending' = acPending \ {r}
  /\ ClearList
  /\ UNCHANGED <<acNow, acTimer, acCalls, acRuns, acNextReq, acInputValue, acSelected,
                 acUfOk, acStaleRender>>
  /\ UNCHANGED <<formVars, diariasVars, dashVars, pageVars>>

\* keydown Escape (ignored while items is empty)
AcEscape ==
  /\ acItems.req # 0
  /\ ClearList
  /\ UNCHANGED <<acNow, acTimer, acCalls, acRuns, acPending, acNextReq, acInputValue,
                 acSelected, acUfOk, acStaleRender>>
  /\ UNCHANGED <<formVars, diariasVars, dashVars, pageVars>>

\* keydown Enter, or a click on the item: selectItem of a single select
AcCommit ==
  /\ acItems.req # 0
  /\ acSelected' = acItems.term
  /\ acInputValue' = acItems.term
  /\ ClearList
  /\ UNCHANGED <<acNow, acTimer, acCalls, acRuns, acPending, acNextReq, acUfOk, acStaleRender>>
  /\ UNCHANGED <<formVars, diariasVars, dashVars, pageVars>>

\* click outside the widget
AcOutsideClick ==
  /\ ClearList
  /\ UNCHANGED <<acNow, acTimer, acCalls, acRuns, acPending, acNextReq, acInputValue,
                 acSelected, acUfOk, acStaleRender>>
  /\ UNCHANGED <<formVars, diariasVars, dashVars, pageVars>>

\* the related UF of a city picker is set or unset
AcUfChange ==
  /\ acUfOk' = ~acUfOk
  /\ UNCHANGED <<acNow, acTimer, acCalls, acRuns, acPending, acNextReq, acItems, acOpen,
                 acHint, acInputValue, acSelected, acStaleRender>>
  /\ UNCHANGED <<formVars, diariasVars, dashVars, pageVars>>

\* ------------------------------------ client estimate of the leg-card form
\* (the initRoteiroFormset of the leg-card pages: calcularDiarias,
\* updateDiarias, updateDiariasPreview). Dates are days of a calendar, times
\* are minutes of the day, durations are minutes, amounts are cents.
Tipos == {"INTERIOR", "CAPITAL", "BRASILIA"}
\* the times of day a time input takes
HorasDoDia == {0, 2 * 60, 6 * 60, 6 * 60 + 1, 7 * 60, 8 * 60, 8 * 60 + 1, 16 * 60, 20 * 60}
DatasEst == {<<>>} \cup {<<d>> : d \in 0..MaxDia}
HorasEst == {<<>>} \cup {<<m>> : m \in HorasDoDia}
MinutosPorDia == 24 * 60

\* parseDateTime: null (<<>>) without a date, "00:00" without a time
ParseDateTime(dateValue, timeValue) ==
  IF dateValue = <<>> THEN <<>>
  ELSE <<[dia |-> dateValue[1],
          min |-> IF timeValue = <<>> THEN 0 ELSE timeValue[1]]>>

\* Date.getTime, in minutes
GetTime(dt) == dt.dia * MinutosPorDia + dt.min

ParcialStrict(restoMin) ==
  IF restoMin < 6 * 60 THEN 0 ELSE IF restoMin < 8 * 60 THEN 15 ELSE 30

\* the tier of the remainder
Parcial(restoMin) ==
  IF restoMin <= 6 * 60 THEN 0 ELSE IF restoMin <= 8 * 60 THEN 15 ELSE 30

\* the error of a floating-point result that is not exact, in ticks of 1/100
\* of a minute: far more than a double is off by
Arredondamento == {-1, 0, 1}

\* totalHoras = totalMs / (1000 * 60 * 60), in ticks: a whole number of hours
\* is computed exactly, any other quotient is rounded
TotalHoras(totalMin, err) ==
  totalMin * 100 + (IF totalMin % 60 = 0 THEN 0 ELSE err)

\* Math.floor(totalHoras / 24)
DiasInteiros(totalMin, err) == TotalHoras(totalMin, err) \div (MinutosPorDia * 100)

\* diasInteiros and parcial of a positive duration as calcularDiarias computes
\* them, the remainder in milliseconds
Unidades(saidaDt, chegadaDt, err) ==
  LET totalMin == GetTime(chegadaDt) - GetTime(saidaDt)
      diasInteiros == DiasInteiros(totalMin, err)
      restoMin == totalMin - diasInteiros * MinutosPorDia
  IN IF saidaDt.dia # chegadaDt.dia /\ totalMin < MinutosPorDia
     THEN [diasInteiros |-> 1, parcial |-> 0]
     ELSE [diasInteiros |-> diasInteiros, parcial |-> Parcial(restoMin)]

ParcialHorasStrict(restoHoras) ==
  IF restoHoras < 6 * 60 * 100 THEN 0 ELSE IF restoHoras < 8 * 60 * 100 THEN 15 ELSE 30

\* the tier of the remainder in hours
ParcialHoras(restoHoras) ==
  IF restoHoras <= 6 * 60 * 100 THEN 0 ELSE IF restoHoras <= 8 * 60 * 100 THEN 15 ELSE 30

\* diasInteiros and parcial as updateDiariasPreview computes them, the
\* remainder in hours
UnidadesHoras(saidaDt, chegadaDt, err) ==
  LET totalMin == GetTime(chegadaDt) - GetTime(saidaDt)
      totalHoras == TotalHoras(totalMin, err)
      diasInteiros == DiasInteiros(totalMin, err)
      restoHoras == totalHoras - diasInteiros * MinutosPorDia * 100
  IN IF saidaDt.dia # chegadaDt.dia /\ totalHoras < MinutosPorDia * 100
     THEN [diasInteiros |-> 1, parcial |-> 0]
     ELSE [diasInteiros |-> diasInteiros, parcial |-> ParcialHoras(restoHoras)]

Tabela ==
  [INTERIOR |-> [full |-> 29055, p15 |-> 4358, p30 |-> 8717],
   CAPITAL  |-> [full |-> 37126, p15 |-> 5569, p30 |-> 11138],
   BRASILIA |-> [full |-> 46812, p15 |-> 7022, p30 |-> 14043]]

\* tabela[tipoDestino] || { full: 0, p15: 0, p30: 0 }
Valores(tipo) ==
  IF tipo \in DOMAIN Tabela THEN Tabela[tipo] ELSE [full |-> 0, p15 |-> 0, p30 |-> 0]

\* mutant: the amounts of the two tiers are exchanged
ValorParcialSwapped(valores, parcial) ==
  IF parcial = 15 THEN valores.p30 ELSE IF parcial = 30 THEN valores.p15 ELSE 0

ValorParcialP15(valores, parcial) ==
  IF parcial = 15 THEN valores.p15 ELSE IF parcial = 30 THEN valores.p15 ELSE 0

ValorParcial(valores, parcial) ==
  IF parcial = 15 THEN valores.p15 ELSE IF parcial = 30 THEN valores.p30 ELSE 0

\* valor1 / valorPorServidor
ValorPorServidor(tipo, u) ==
  u.diasInteiros * Valores(tipo).full + ValorParcial(Valores(tipo), u.parcial)

\* partes, before they are joined by " + ": "n x pct%"
Partes(u) ==
  (IF u.diasInteiros > 0 THEN <<[n |-> u.diasInteiros, pct |-> 100]>> ELSE <<>>)
    \o (IF u.parcial > 0 THEN <<[n |-> 1, pct |-> u.parcial]>> ELSE <<>>)

EstimativaVazia == [quantidade |-> <<>>, valorTotal |-> <<>>]

CalcularDiariasZero(tipo, saidaDt, chegadaDt, servidores, err) ==
  IF tipo = "" \/ saidaDt = <<>> \/ chegadaDt = <<>> THEN EstimativaVazia
  ELSE IF GetTime(chegadaDt[1]) - GetTime(saidaDt[1]) < 0 THEN EstimativaVazia
  ELSE LET u == Unidades(saidaDt[1], chegadaDt[1], err)
       IN [quantidade |-> Partes(u),
           valorTotal |-> <<ValorPorServidor(tipo, u) * servidores>>]

CalcularDiarias(tipo, saidaDt, chegadaDt, servidores, err) ==
  IF tipo = "" \/ saidaDt = <<>> \/ chegadaDt = <<>> THEN EstimativaVazia
  ELSE IF GetTime(chegadaDt[1]) - GetTime(saidaDt[1]) <= 0 THEN EstimativaVazia
  ELSE LET u == Unidades(saidaDt[1], chegadaDt[1], err)
       IN [quantidade |-> Partes(u),
           valorTotal |-> <<ValorPorServidor(tipo, u) * servidores>>]

\* the preview when there is nothing to show: "Preencha saída/chegada para
\* calcular" and three "-"
PreviewVazio ==
  [vazio |-> TRUE, partes |-> <<>>, porServidor |-> <<>>, total |-> <<>>, horas |-> <<>>]

\* totalHoras.toFixed(2), in hundredths of an hour
HorasFixed2(totalMin) == (10 * totalMin + 3) \div 6

\* the texts updateDiariasPreview writes (partes <<>> shows "0")
DiariasPreview(tipo, saidaDt, chegadaDt, servidores, err) ==
  IF tipo = "" \/ saidaDt = <<>> \/ chegadaDt = <<>> \/ servidores <= 0 THEN PreviewVazio
  ELSE IF GetTime(chegadaDt[1]) - GetTime(saidaDt[1]) <= 0 THEN PreviewVazio
  ELSE LET u == UnidadesHoras(saidaDt[1], chegadaDt[1], err)
       IN [vazio |-> FALSE,
           partes |-> Partes(u),
           porServidor |-> <<ValorPorServidor(tipo, u)>>,
           total |-> <<ValorPorServidor(tipo, u) * servidores>>,
           horas |-> <<HorasFixed2(GetTime(chegadaDt[1]) - GetTime(saidaDt[1]))>>]

\* updateDiarias then updateDiariasPreview, the two listeners of every input
\* of the estimate, on the inputs as the event leaves them; both divide the
\* same milliseconds, so both get the same totalHoras
UpdateDiarias(tipo, sd, sh, cd, ch, n) ==
  LET saidaDt == ParseDateTime(sd, sh)
      chegadaDt == ParseDateTime(cd, ch)
  IN \E err \in Arredondamento :
       /\ quantidadeDiarias' = CalcularDiarias(tipo, saidaDt, chegadaDt, n, err).quantidade
       /\ valorDiarias' = CalcularDiarias(tipo, saidaDt, chegadaDt, n, err).valorTotal
       /\ diariasPreview' = DiariasPreview(tipo, saidaDt, chegadaDt, n, err)

\* the leg-card form rendered empty: updateDiarias and updateDiariasPreview
\* ran once at the end of the construction
InitEst ==
  /\ estTipoDestino = ""
  /\ estSaidaData = <<>>
  /\ estSaidaHora = <<>>
  /\ estChegadaData = <<>>
  /\ estChegadaHora = <<>>
  /\ estServidores = 0
  /\ quantidadeDiarias = <<>>
  /\ valorDiarias = <<>>
  /\ diariasPreview = PreviewVazio

EstOthers ==
  UNCHANGED <<formVars, diariasVars, dashVars, autoVars,
              cpfVars, svVars, unhandled, modalVars, cidVars, cepVars, maskVars, lateVars>>

\* change of tipoDestinoSelect
EstTipoChange(t) ==
  /\ t # estTipoDestino
  /\ estTipoDestino' = t
  /\ UNCHANGED <<estSaidaData, estSaidaHora, estChegadaData, estChegadaHora, estServidores>>
  /\ UpdateDiarias(t, estSaidaData, estSaidaHora, estChegadaData, estChegadaHora,
                   estServidores)
  /\ EstOthers

\* change of the first card's saida-data
EstSaidaDataChange(d) ==
  /\ d # estSaidaData
  /\ estSaidaData' = d
  /\ UNCHANGED <<estTipoDestino, estSaidaHora, estChegadaData, estChegadaHora, estServidores>>
  /\ UpdateDiarias(estTipoDestino, d, estSaidaHora, estChegadaData, estChegadaHora,
                   estServidores)
  /\ EstOthers

\* change of the first card's saida-hora
EstSaidaHoraChange(h) ==
  /\ h # estSaidaHora
  /\ estSaidaHora' = h
  /\ UNCHANGED <<estTipoDestino, estSaidaData, estChegadaData, estChegadaHora, estServidores>>
  /\ UpdateDiarias(estTipoDestino, estSaidaData, h, estChegadaData, estChegadaHora,
                   estServidores)
  /\ EstOthers

\* change of retornoChegadaDataInput
EstChegadaDataChange(d) ==
  /\ d # estChegadaData
  /\ estChegadaData' = d
  /\ UNCHANGED <<estTipoDestino, estSaidaData, estSaidaHora, estChegadaHora, estServidores>>
  /\ UpdateDiarias(estTipoDestino, estSaidaData, estSaidaHora, d, estChegadaHora,
                   estServidores)
  /\ EstOthers

\* change of retornoChegadaHoraInput
EstChegadaHoraChange(h) ==
  /\ h # estChegadaHora
  /\ estChegadaHora' = h
  /\ UNCHANGED <<estTipoDestino, estSaidaData, estSaidaHora, estChegadaData, estServidores>>
  /\ UpdateDiarias(estTipoDestino, estSaidaData, estSaidaHora, estChegadaData, h,
                   estServidores)
  /\ EstOthers

\* change of servidoresSelect
EstServidoresChange(n) ==
  /\ n # estServidores
  /\ estServidores' = n
  /\ UNCHANGED <<estTipoDestino, estSaidaData, estSaidaHora, estChegadaData, estChegadaHora>>
  /\ UpdateDiarias(estTipoDestino, estSaidaData, estSaidaHora, estChegadaData,
                   estChegadaHora, n)
  /\ EstOthers

\* ------------------------------------------------------------ CPF masks
\* Texts are sequences of one-character strings.
Digitos == {"0", "1", "2", "3", "4", "5", "6", "7", "8", "9"}
\* the digits typed
DigitosTyped == {"1", "2"}
IsDigit(c) == c \in Digitos
Min(a, b) == IF a <= b THEN a ELSE b

\* String.prototype.slice with 0 <= a
Slice(t, a, b) == SubSeq(t, a + 1, Min(b, Len(t)))
SliceFrom(t, a) == SubSeq(t, a + 1, Len(t))

\* value.replace(/\D+/g, "") of masks.js; onlyDigits of viajante_form.js
ToDigits(value) == SelectSeq(value, IsDigit)
OnlyDigits(value) == SelectSeq(value, IsDigit)

FormatCpf(value) ==
  LET digits == Slice(ToDigits(value), 0, 11)
  IN IF Len(digits) <= 3 THEN digits
     ELSE IF Len(digits) <= 6 THEN Slice(digits, 0, 3) \o <<".">> \o SliceFrom(digits, 3)
     ELSE IF Len(digits) <= 9
       THEN Slice(digits, 0, 3) \o <<".">> \o Slice(digits, 3, 6) \o <<".">>
              \o SliceFrom(digits, 6)
     ELSE Slice(digits, 0, 3) \o <<".">> \o Slice(digits, 3, 6) \o <<".">>
            \o Slice(digits, 6, 9) \o <<"-">> \o SliceFrom(digits, 9)

MaskCPFAll(value) ==
  LET digits == OnlyDigits(value)
  IN IF Len(digits) <= 3 THEN digits
     ELSE IF Len(digits) <= 6 THEN Slice(digits, 0, 3) \o <<".">> \o SliceFrom(digits, 3)
     ELSE IF Len(digits) <= 9
       THEN Slice(digits, 0, 3) \o <<".">> \o Slice(digits, 3, 6) \o <<".">>
              \o SliceFrom(digits, 6)
     ELSE Slice(digits, 0, 3) \o <<".">> \o Slice(digits, 3, 6) \o <<".">>
            \o Slice(digits, 6, 9) \o <<"-">> \o SliceFrom(digits, 9)

MaskCPF(value) ==
  LET digits == Slice(OnlyDigits(value), 0, 11)
  IN IF Len(digits) <= 3 THEN digits
     ELSE IF Len(digits) <= 6 THEN Slice(digits, 0, 3) \o <<".">> \o SliceFrom(digits, 3)
     ELSE IF Len(digits) <= 9
       THEN Slice(digits, 0, 3) \o <<".">> \o Slice(digits, 3, 6) \o <<".">>
              \o SliceFrom(digits, 6)
     ELSE Slice(digits, 0, 3) \o <<".">> \o Slice(digits, 3, 6) \o <<".">>
            \o Slice(digits, 6, 9) \o <<"-">> \o SliceFrom(digits, 9)

\* the digit strings of at most n digits
DigitStrings(n) == UNION {[1..len -> DigitosTyped] : len \in 0..n}

\* an empty CPF input no listener has run on
InitCpf ==
  /\ cpfRaw = <<>>
  /\ cpfStage = "typed"
  /\ cpfMasked = <<>>
  /\ cpfFormatted = <<>>

CpfOthers ==
  UNCHANGED <<formVars, diariasVars, dashVars, autoVars,
              estVars, svVars, unhandled, modalVars, cidVars, cepVars, maskVars, lateVars>>

\* the input listener of viajante_form.js: input.value = maskCPF(input.value)
CpfMaskListener ==
  /\ cpfStage = "typed"
  /\ cpfMasked' = MaskCPF(cpfRaw)
  /\ cpfStage' = "masked"
  /\ UNCHANGED <<cpfRaw, cpfFormatted>>
  /\ CpfOthers

\* the input listener of masks.js on the text the first listener left:
\* applyWithCaret(input, formatCpf, /\d/)
CpfFormatListener ==
  /\ cpfStage = "masked"
  /\ cpfFormatted' = FormatCpf(cpfMasked)
  /\ cpfStage' = "formatted"
  /\ UNCHANGED <<cpfRaw, cpfMasked>>
  /\ CpfOthers

\* ------------------------------------------------- the travelers picker
\* servidoresSelect, a multiple select: its autocomplete widget
\* (createAutocomplete with isMultiple), the chips and the traveler preview of
\* the page script. The debounce of the searches is reduced to an armed timer.
Itens == {"s1", "s2", "s3"}
SvTerms == {"", "a"}

\* what a search returns: at most n items, in the order of the catalogue
Catalogo == <<"s1", "s2", "s3">>
ItemLists(n) ==
  {SelectSeq(Catalogo, LAMBDA v : v \in S) : S \in {T \in SUBSET Itens : Cardinality(T) <= n}}

\* another preview load may start
SvLoadRoom == svNextLoad <= MaxSvLoads

\* clearList
SvClearList ==
  /\ svItems' = <<>>
  /\ svActiveIndex' = -1
  /\ svList' = <<>>
  /\ svOpen' = FALSE

\* renderItems of the items its with the active index active, the selected
\* options being selected
SvRenderItems(its, active, selected) ==
  IF its = <<>> THEN SvClearList
  ELSE /\ svItems' = its
       /\ svActiveIndex' = active
       /\ svList' = [i \in 1..Len(its) |->
                       [id |-> its[i], disabled |-> its[i] \in selected,
                        active |-> (i - 1 = active)]]
       /\ svOpen' = TRUE

\* selectedOptions, in the order of the options
SelectedInOrder(options, selected) == SelectSeq(options, LAMBDA v : v \in selected)

\* carregarViajantesPreview up to its await, the options selected being selected
CarregarViajantesPreview(options, selected) ==
  IF SelectedInOrder(options, selected) = <<>>
  THEN /\ svPreview' = <<>>
       /\ UNCHANGED <<svLoads, svNextLoad>>
  ELSE /\ svLoads' = svLoads \cup {[id |-> svNextLoad,
                                    ids |-> SelectedInOrder(options, selected)]}
       /\ svNextLoad' = svNextLoad + 1
       /\ UNCHANGED svPreview

\* dispatchEvent(change) on the select: the listener of the widget empties the
\* text, the listener of the page renders the chips and loads the preview
SvDispatchChange(options, selected) ==
  /\ svChanged' = TRUE
  /\ svInputValue' = ""
  /\ svChips' = SelectedInOrder(options, selected)
  /\ CarregarViajantesPreview(options, selected)

SvNoChange ==
  /\ svChanged' = FALSE
  /\ UNCHANGED <<svChips, svLoads, svNextLoad, svPreview>>

SelectItemAgain(item) ==
  /\ svCommitted' = item
  /\ svOptions' = Append(svOptions, item)
  /\ svSelected' = svSelected \cup {item}
  /\ SvDispatchChange(Append(svOptions, item), svSelected \cup {item})
  /\ SvClearList

\* selectItem(item) of a multiple select
SelectItem(item) ==
  /\ svCommitted' = item
  /\ IF item \in svSelected
     THEN /\ SvClearList
          /\ svInputValue' = ""
          /\ SvNoChange
          /\ UNCHANGED <<svOptions, svSelected>>
     ELSE LET exists == \E k \in 1..Len(svOptions) : svOptions[k] = item
              options == IF exists THEN svOptions ELSE Append(svOptions, item)
          IN /\ svOptions' = options
             /\ svSelected' = svSelected \cup {item}
             /\ SvDispatchChange(options, svSelected \cup {item})
             /\ SvClearList

ArrowDownIndexFree(n, active) == active + 1

\* Math.min(items.length - 1, activeIndex + 1); Math.max(0, activeIndex - 1)
ArrowDownIndex(n, active) == Min(n - 1, active + 1)
ArrowUpIndex(active) == Max(0, active - 1)

\* the page rendered with nobody selected
InitSv ==
  /\ svItems = <<>>
  /\ svActiveIndex = -1
  /\ svList = <<>>
  /\ svOpen = FALSE
  /\ svInputValue = ""
  /\ svTimer = FALSE
  /\ svPending = {}
  /\ svNextReq = 1
  /\ svOptions = <<>>
  /\ svSelected = {}
  /\ svChips = <<>>
  /\ svLoads = {}
  /\ svNextLoad = 1
  /\ svPreview = <<>>
  /\ svKey = ""
  /\ svCommitted = ""
  /\ svChanged = FALSE
  /\ svToast = FALSE

SvOthers ==
  UNCHANGED <<formVars, diariasVars, dashVars, autoVars,
              estVars, cpfVars, modalVars, cidVars, cepVars, maskVars, lateVars>>
SvNoKey == svKey' = "" /\ svCommitted' = "" /\ svToast' = FALSE

\* input event: the text becomes term, debouncedFetch
SvInput(term) ==
  /\ term # svInputValue
  /\ svNextReq <= MaxSvRequests
  /\ svInputValue' = term
  /\ svTimer' = TRUE
  /\ SvNoKey
  /\ svChanged' = FALSE
  /\ UNCHANGED <<svItems, svActiveIndex, svList, svOpen, svPending, svNextReq, svOptions,
                 svSelected, svChips, svLoads, svNextLoad, svPreview, unhandled>>
  /\ SvOthers

\* focus event: debouncedFetch
SvFocus ==
  /\ svNextReq <= MaxSvRequests
  /\ svTimer' = TRUE
  /\ SvNoKey
  /\ svChanged' = FALSE
  /\ UNCHANGED <<svItems, svActiveIndex, svList, svOpen, svInputValue, svPending, svNextReq,
                 svOptions, svSelected, svChips, svLoads, svNextLoad, svPreview, unhandled>>
  /\ SvOthers

\* the timer's callback: fetchItems up to its await
SvTimerFire ==
  /\ svTimer
  /\ svTimer' = FALSE
  /\ svPending' = svPending \cup {svNextReq}
  /\ svNextReq' = svNextReq + 1
  /\ SvNoKey
  /\ svChanged' = FALSE
  /\ UNCHANGED <<svItems, svActiveIndex, svList, svOpen, svInputValue, svOptions,
                 svSelected, svChips, svLoads, svNextLoad, svPreview, unhandled>>
  /\ SvOthers

\* the response of search r: items = data.results || [], activeIndex, renderItems
SvResponseOk(r, its) ==
  /\ r \in svPending
  /\ svPending' = svPending \ {r}
  /\ SvRenderItems(its, IF its # <<>> THEN 0 ELSE -1, svSelected)
  /\ SvNoKey
  /\ svChanged' = FALSE
  /\ UNCHANGED <<svInputValue, svTimer, svNextReq, svOptions, svSelected, svChips,
                 svLoads, svNextLoad, svPreview, unhandled>>
  /\ SvOthers

\* search r fails: the catch of debouncedFetch, clearList
SvResponseFail(r) ==
  /\ r \in svPending
  /\ svPending' = svPending \ {r}
  /\ SvClearList
  /\ SvNoKey
  /\ svChanged' = FALSE
  /\ UNCHANGED <<svInputValue, svTimer, svNextReq, svOptions, svSelected, svChips,
                 svLoads, svNextLoad, svPreview, unhandled>>
  /\ SvOthers

\* keydown ArrowDown (ignored while items is empty)
SvArrowDown ==
  /\ svItems # <<>>
  /\ SvRenderItems(svItems, ArrowDownIndex(Len(svItems), svActiveIndex), svSelected)
  /\ svKey' = "ArrowDown" /\ svCommitted' = "" /\ svToast' = FALSE
  /\ svChanged' = FALSE
  /\ UNCHANGED <<svInputValue, svTimer, svPending, svNextReq, svOptions, svSelected,
                 svChips, svLoads, svNextLoad, svPreview, unhandled>>
  /\ SvOthers

\* keydown ArrowUp
SvArrowUp ==
  /\ svItems # <<>>
  /\ SvRenderItems(svItems, ArrowUpIndex(svActiveIndex), svSelected)
  /\ svKey' = "ArrowUp" /\ svCommitted' = "" /\ svToast' = FALSE
  /\ svChanged' = FALSE
  /\ UNCHANGED <<svInputValue, svTimer, svPending, svNextReq, svOptions, svSelected,
                 svChips, svLoads, svNextLoad, svPreview, unhandled>>
  /\ SvOthers

\* keydown Enter: selectItem(items[activeIndex]), which returns at once when
\* there is no such item
SvEnter ==
  /\ svItems # <<>>
  /\ SvLoadRoom \/ ~(svActiveIndex \in 0..(Len(svItems) - 1))
       \/ svItems[svActiveIndex + 1] \in svSelected
  /\ svKey' = "Enter"
  /\ svToast' = FALSE
  /\ IF svActiveIndex \in 0..(Len(svItems) - 1)
     THEN SelectItem(svItems[svActiveIndex + 1])
     ELSE /\ svCommitted' = ""
          /\ SvNoChange
          /\ UNCHANGED <<svItems, svActiveIndex, svList, svOpen, svInputValue, svOptions,
                         svSelected>>
  /\ UNCHANGED <<svTimer, svPending, svNextReq, unhandled>>
  /\ SvOthers

\* keydown Escape
SvEscape ==
  /\ svItems # <<>>
  /\ SvClearList
  /\ SvNoKey
  /\ svChanged' = FALSE
  /\ UNCHANGED <<svInputValue, svTimer, svPending, svNextReq, svOptions, svSelected,
                 svChips, svLoads, svNextLoad, svPreview, unhandled>>
  /\ SvOthers

\* click on the i-th button of the list, which is ignored when the button was
\* rendered disabled
SvClick(i) ==
  /\ i \in 1..Len(svList)
  /\ ~svList[i].disabled
  /\ SvLoadRoom \/ svItems[i] \in svSelected
  /\ svKey' = ""
  /\ svToast' = FALSE
  /\ SelectItem(svItems[i])
  /\ UNCHANGED <<svTimer, svPending, svNextReq, unhandled>>
  /\ SvOthers

\* click outside the widget
SvOutsideClick ==
  /\ SvClearList
  /\ SvNoKey
  /\ svChanged' = FALSE
  /\ UNCHANGED <<svInputValue, svTimer, svPending, svNextReq, svOptions, svSelected,
                 svChips, svLoads, svNextLoad, svPreview, unhandled>>
  /\ SvOthers

\* addServidorChip(viajante), called for a traveler created in a modal
AddServidorChip(v) ==
  /\ SvLoadRoom \/ v \in svSelected
  /\ svKey' = "" /\ svCommitted' = ""
  /\ LET exists == \E k \in 1..Len(svOptions) : svOptions[k] = v
         options == IF exists THEN svOptions ELSE Append(svOptions, v)
     IN /\ svOptions' = options
        /\ IF v \in svSelected
           THEN /\ svToast' = TRUE
                /\ SvNoChange
                /\ UNCHANGED <<svSelected, svInputValue>>
           ELSE /\ svToast' = FALSE
                /\ svSelected' = svSelected \cup {v}
                /\ SvDispatchChange(options, svSelected \cup {v})
  /\ UNCHANGED <<svItems, svActiveIndex, svList, svOpen, svTimer, svPending, svNextReq,
                 unhandled>>
  /\ SvOthers

\* click on the remove button of the k-th chip: removeServidorChip(id)
RemoveServidorChip(k) ==
  /\ k \in 1..Len(svChips)
  /\ SvLoadRoom \/ svSelected \ {svChips[k]} = {}
  /\ SvNoKey
  /\ svSelected' = svSelected \ {svChips[k]}
  /\ SvDispatchChange(svOptions, svSelected \ {svChips[k]})
  /\ UNCHANGED <<svItems, svActiveIndex, svList, svOpen, svTimer, svPending, svNextReq,
                 svOptions, unhandled>>
  /\ SvOthers

\* the response of preview load r is rendered
SvPreviewOk(r) ==
  /\ r \in svLoads
  /\ svLoads' = svLoads \ {r}
  /\ svPreview' = r.ids
  /\ SvNoKey
  /\ svChanged' = FALSE
  /\ UNCHANGED <<svItems, svActiveIndex, svList, svOpen, svInputValue, svTimer, svPending,
                 svNextReq, svOptions, svSelected, svChips, svNextLoad, unhandled>>
  /\ SvOthers

\* preview load r fails (fetch rejects, or the body is not JSON): the promise
\* carregarViajantesPreview returned is rejected, and its caller attached no
\* handler to it
SvPreviewFail(r) ==
  /\ r \in svLoads
  /\ svLoads' = svLoads \ {r}
  /\ unhandled' = unhandled \cup {"carregarViajantesPreview"}
  /\ SvNoKey
  /\ svChanged' = FALSE
  /\ UNCHANGED <<svItems, svActiveIndex, svList, svOpen, svInputValue, svTimer, svPending,
                 svNextReq, svOptions, svSelected, svChips, svNextLoad, svPreview>>
  /\ SvOthers

\* --------------------------------------------------- the modal controller
\* openModal, bindModalEvents, closeModal, for a trigger that creates a
\* vehicle (data-modal-kind="veiculo")
InitModal ==
  /\ modalRoot = ""
  /\ bodyModalOpen = FALSE
  /\ submitLoading = FALSE
  /\ modalPending = {}
  /\ modalNextId = 1
  /\ modalFilled = FALSE
  /\ modalToast = ""
  /\ modalLast = ""

ModalOthers ==
  UNCHANGED <<formVars, diariasVars, dashVars, autoVars,
              estVars, cpfVars, svVars, cidVars, cepVars, maskVars, lateVars>>

CloseModalKeep ==
  /\ UNCHANGED <<modalRoot, bodyModalOpen, submitLoading>>

\* closeModal
CloseModal ==
  /\ modalRoot' = ""
  /\ bodyModalOpen' = FALSE
  /\ submitLoading' = FALSE

\* click on a [data-modal-url] trigger: openModal up to its await
ModalTriggerClick ==
  /\ modalNextId <= MaxModalRequests
  /\ modalRoot' = "loading"
  /\ bodyModalOpen' = TRUE
  /\ submitLoading' = FALSE
  /\ modalPending' = modalPending \cup {[id |-> modalNextId, kind |-> "open"]}
  /\ modalNextId' = modalNextId + 1
  /\ modalToast' = "" /\ modalLast' = ""
  /\ UNCHANGED <<modalFilled, unhandled>>
  /\ ModalOthers

\* the modal's HTML arrives: it is put in the root and its events are bound
ModalOpenOk(r) ==
  /\ r \in modalPending /\ r.kind = "open"
  /\ modalPending' = modalPending \ {r}
  /\ modalRoot' = "modal"
  /\ submitLoading' = FALSE
  /\ modalToast' = "" /\ modalLast' = "openOk"
  /\ UNCHANGED <<bodyModalOpen, modalNextId, modalFilled, unhandled>>
  /\ ModalOthers

\* the fetch of openModal fails: its catch
ModalOpenFail(r) ==
  /\ r \in modalPending /\ r.kind = "open"
  /\ modalPending' = modalPending \ {r}
  /\ CloseModal
  /\ modalToast' = "error" /\ modalLast' = "openFail"
  /\ UNCHANGED <<modalNextId, modalFilled, unhandled>>
  /\ ModalOthers

\* click on a [data-modal-close] button or on the backdrop
ModalCloseClick ==
  /\ modalRoot = "modal"
  /\ CloseModal
  /\ modalToast' = "" /\ modalLast' = ""
  /\ UNCHANGED <<modalPending, modalNextId, modalFilled, unhandled>>
  /\ ModalOthers

\* submit of the form inside the modal: the handler up to its await
ModalSubmit ==
  /\ modalRoot = "modal"
  /\ modalNextId <= MaxModalRequests
  /\ submitLoading' = TRUE
  /\ modalPending' = modalPending \cup {[id |-> modalNextId, kind |-> "post"]}
  /\ modalNextId' = modalNextId + 1
  /\ modalToast' = "" /\ modalLast' = ""
  /\ UNCHANGED <<modalRoot, bodyModalOpen, modalFilled, unhandled>>
  /\ ModalOthers

\* the POST is answered with JSON: success fills the target fields, raises the
\* success toast and closes the modal; otherwise the button stops loading
ModalPostJson(r, success) ==
  /\ r \in modalPending /\ r.kind = "post"
  /\ modalPending' = modalPending \ {r}
  /\ IF success
     THEN /\ modalFilled' = TRUE
          /\ modalToast' = "success"
          /\ CloseModal
     ELSE /\ submitLoading' = FALSE
          /\ modalToast' = ""
          /\ UNCHANGED <<modalRoot, bodyModalOpen, modalFilled>>
  /\ modalLast' = "postOk"
  /\ UNCHANGED <<modalNextId, unhandled>>
  /\ ModalOthers

\* the POST is answered with HTML: the form with its errors replaces the modal
ModalPostHtml(r) ==
  /\ r \in modalPending /\ r.kind = "post"
  /\ modalPending' = modalPending \ {r}
  /\ modalRoot' = "modal"
  /\ submitLoading' = FALSE
  /\ modalToast' = "" /\ modalLast' = "postOk"
  /\ UNCHANGED <<bodyModalOpen, modalNextId, modalFilled, unhandled>>
  /\ ModalOthers

\* the POST fails at the network: the await throws in the async submit
\* handler, which has no try, so the promise the handler returned is rejected
ModalPostFail(r) ==
  /\ r \in modalPending /\ r.kind = "post"
  /\ modalPending' = modalPending \ {r}
  /\ CloseModalKeep
  /\ modalToast' = "" /\ modalLast' = "postFail"
  /\ unhandled' = unhandled \cup {"modal submit"}
  /\ UNCHANGED <<modalNextId, modalFilled>>
  /\ ModalOthers

\* ------------------------------------------------ a state/city pair of selects
\* setupCidadeSelect and carregarCidades
InitCid ==
  /\ cidEstado = ""
  /\ cidOptions = <<>>
  /\ cidLoads = {}
  /\ cidNextLoad = 1

CidOthers ==
  UNCHANGED <<formVars, diariasVars, dashVars, autoVars,
              estVars, cpfVars, svVars, modalVars, cepVars, maskVars, lateVars>>

\* change of estadoSelect: carregarCidades up to its await
CidEstadoChange(uf) ==
  /\ uf # cidEstado
  /\ cidNextLoad <= MaxCidLoads
  /\ cidEstado' = uf
  /\ cidOptions' = <<>>
  /\ IF uf = ""
     THEN UNCHANGED <<cidLoads, cidNextLoad>>
     ELSE /\ cidLoads' = cidLoads \cup {[id |-> cidNextLoad, uf |-> uf]}
          /\ cidNextLoad' = cidNextLoad + 1
  /\ UNCHANGED unhandled
  /\ CidOthers

\* the cities of load r arrive and are appended to the options
CidLoadOk(r) ==
  /\ r \in cidLoads
  /\ cidLoads' = cidLoads \ {r}
  /\ cidOptions' = Append(cidOptions, r.uf)
  /\ UNCHANGED <<cidEstado, cidNextLoad, unhandled>>
  /\ CidOthers

\* load r fails (fetch rejects, the body is not JSON, or it has no cidades):
\* the promise carregarCidades returned is rejected, and the change listener
\* attached no handler to it
CidLoadFail(r) ==
  /\ r \in cidLoads
  /\ cidLoads' = cidLoads \ {r}
  /\ unhandled' = unhandled \cup {"carregarCidades"}
  /\ UNCHANGED <<cidEstado, cidOptions, cidNextLoad>>
  /\ CidOthers

\* ------------------------------------------------------- the CEP lookup
\* fetchCep and the listeners of the CEP input of the configuration form
CepTexts ==
  {<<>>,
   <<"8", "0", "0", "1">>,
   <<"8", "0", "0", "1", "0", "0", "0", "0">>,
   <<"8", "6", "0", "1", "0", "-", "0", "0", "0">>,
   <<"8", "0", "0", "1", "0", "0", "0", "0", "1">>}

\* what the lookup service answers for a CEP it knows
CepPayloads ==
  {[logradouro |-> "Rua A", bairro |-> "Centro", cidade |-> "Curitiba", uf |-> "PR"],
   [logradouro |-> "", bairro |-> "", cidade |-> "Londrina", uf |-> "PR"]}

AddressFields == {"logradouro", "bairro", "cidade", "uf"}
\* what the user types in an address field
TypedAddress == {"", "x"}

StatusVazio == [text |-> "", isError |-> FALSE]
StatusOitoDigitos == [text |-> "CEP deve conter 8 digitos.", isError |-> TRUE]
StatusBuscando == [text |-> "Buscando CEP...", isError |-> FALSE]
StatusAtualizado == [text |-> "CEP atualizado.", isError |-> FALSE]
StatusNaoEncontrado == [text |-> "CEP nao encontrado.", isError |-> TRUE]

\* cepInput.value.replace(/\D/g, "")
CepDigits(value) == SelectSeq(value, IsDigit)

CepLookupWantedAtLeast(digits) == Len(digits) >= 8

\* fetchCep goes on to the lookup: digits is neither empty nor of a length
\* other than 8
CepLookupWanted(digits) == Len(digits) = 8

\* what updatePreview builds the address of the preview from
PreviewOf(e, cep) == [endereco |-> e, cep |-> cep]

InitCep ==
  /\ cepInput = <<>>
  /\ cepTimer = FALSE
  /\ endereco = [logradouro |-> "", bairro |-> "", cidade |-> "", uf |-> ""]
  /\ cepStatus = StatusVazio
  /\ cepPending = {}
  /\ cepNextId = 1
  /\ previewEndereco = PreviewOf([logradouro |-> "", bairro |-> "", cidade |-> "", uf |-> ""], <<>>)
  /\ cepLast = ""

CepOthers ==
  UNCHANGED <<formVars, diariasVars, dashVars, autoVars,
              estVars, cpfVars, svVars, unhandled, modalVars, cidVars, maskVars, lateVars>>

\* fetchCep up to its await
FetchCep ==
  IF CepDigits(cepInput) = <<>>
  THEN /\ cepStatus' = StatusVazio
       /\ previewEndereco' = PreviewOf(endereco, cepInput)
       /\ UNCHANGED <<cepInput, cepPending, cepNextId>>
  ELSE IF ~CepLookupWanted(CepDigits(cepInput))
  THEN /\ cepStatus' = StatusOitoDigitos
       /\ previewEndereco' = PreviewOf(endereco, cepInput)
       /\ UNCHANGED <<cepInput, cepPending, cepNextId>>
  ELSE /\ cepInput' = Slice(CepDigits(cepInput), 0, 5) \o <<"-">>
                        \o SliceFrom(CepDigits(cepInput), 5)
       /\ cepStatus' = StatusBuscando
       /\ cepPending' = cepPending \cup {[id |-> cepNextId, digits |-> CepDigits(cepInput)]}
       /\ cepNextId' = cepNextId + 1
       /\ UNCHANGED previewEndereco

\* input event of the CEP input: updatePreview, then the debounced fetchCep
\* when the text has 8 digits or more
CepInput(t) ==
  /\ t # cepInput
  /\ cepInput' = t
  /\ previewEndereco' = PreviewOf(endereco, t)
  /\ cepTimer' = (cepTimer \/ Len(CepDigits(t)) >= 8)
  /\ cepLast' = ""
  /\ UNCHANGED <<endereco, cepStatus, cepPending, cepNextId>>
  /\ CepOthers

\* blur or change event of the CEP input: fetchCep
CepBlur ==
  /\ cepNextId <= MaxCepLookups
  /\ FetchCep
  /\ cepLast' = ""
  /\ UNCHANGED <<cepTimer, endereco>>
  /\ CepOthers

\* the debounce timer fires: fetchCep
CepTimerFire ==
  /\ cepTimer
  /\ cepNextId <= MaxCepLookups
  /\ cepTimer' = FALSE
  /\ FetchCep
  /\ cepLast' = ""
  /\ UNCHANGED endereco
  /\ CepOthers

\* lookup r is answered with an address
CepResponseOk(r, data) ==
  /\ r \in cepPending
  /\ cepPending' = cepPending \ {r}
  /\ endereco' = data
  /\ cepStatus' = StatusAtualizado
  /\ previewEndereco' = PreviewOf(data, cepInput)
  /\ cepLast' = "ok"
  /\ UNCHANGED <<cepInput, cepTimer, cepNextId>>
  /\ CepOthers

\* lookup r is answered with a non-OK status or an error field, or fails at
\* the network: the catch
CepResponseError(r) ==
  /\ r \in cepPending
  /\ cepPending' = cepPending \ {r}
  /\ cepStatus' = StatusNaoEncontrado
  /\ previewEndereco' = PreviewOf(endereco, cepInput)
  /\ cepLast' = "error"
  /\ UNCHANGED <<cepInput, cepTimer, endereco, cepNextId>>
  /\ CepOthers

\* input event of an address field: updatePreview
AddressInput(f, v) ==
  /\ v # endereco[f]
  /\ endereco' = [endereco EXCEPT ![f] = v]
  /\ previewEndereco' = PreviewOf([endereco EXCEPT ![f] = v], cepInput)
  /\ cepLast' = ""
  /\ UNCHANGED <<cepInput, cepTimer, cepStatus, cepPending, cepNextId>>
  /\ CepOthers

\* ------------------------------------------------------ masks with a caret
\* applyWithCaret of masks.js on an input with data-mask "cpf" or "digits",
\* both with the token pattern \d
MaskKinds == {"cpf", "digits"}
\* the characters typed
MaskTyped == {"1", "."}

Formatter(kind, value) == IF kind = "cpf" THEN FormatCpf(value) ELSE ToDigits(value)

CountTokenChars(text, end) ==
  Len(SelectSeq(SubSeq(text, 1, Max(0, Min(end, Len(text)))), IsDigit))

PositionFromTokenCountPlain(text, tokenCount) == Min(Max(tokenCount, 0), Len(text))

PositionFromTokenCount(text, tokenCount) ==
  IF tokenCount <= 0 THEN 0
  ELSE IF \E i \in 1..Len(text) : CountTokenChars(text, i) >= tokenCount
       THEN CHOOSE i \in 1..Len(text) :
              /\ CountTokenChars(text, i) >= tokenCount
              /\ \A j \in 1..(i - 1) : CountTokenChars(text, j) < tokenCount
       ELSE Len(text)

\* applyWithCaret: value and caret of the input afterwards
ApplyWithCaret(kind, before, start) ==
  LET tokenCount == CountTokenChars(before, start)
      after == Formatter(kind, before)
  IN IF after = before THEN [value |-> before, caret |-> start]
     ELSE [value |-> after, caret |-> PositionFromTokenCount(after, tokenCount)]

\* an empty masked input of either kind
InitMaskKind(kind) ==
  /\ maskKind = kind
  /\ maskValue = <<>>
  /\ maskCaret = 0
  /\ maskBefore = <<>>
  /\ maskStart = 0
  /\ maskEvent = FALSE

InitMask == InitMaskKind("cpf")

MaskOthers ==
  UNCHANGED <<formVars, diariasVars, dashVars, autoVars,
              estVars, cpfVars, svVars, unhandled, modalVars, cidVars, cepVars, lateVars>>

\* the edit left the text before with the caret at start: the input listener
MaskInputEvent(before, start) ==
  /\ maskBefore' = before
  /\ maskStart' = start
  /\ maskEvent' = TRUE
  /\ maskValue' = ApplyWithCaret(maskKind, before, start).value
  /\ maskCaret' = ApplyWithCaret(maskKind, before, start).caret
  /\ UNCHANGED maskKind
  /\ MaskOthers

\* the user types the character c at the caret
MaskType(c) ==
  /\ IsDigit(c) => Len(ToDigits(maskValue)) < MaxMaskDigitos
  /\ MaskInputEvent(SubSeq(maskValue, 1, maskCaret) \o <<c>>
                      \o SubSeq(maskValue, maskCaret + 1, Len(maskValue)),
                    maskCaret + 1)

\* Backspace: the character before the caret is deleted
MaskBackspace ==
  /\ maskCaret > 0
  /\ MaskInputEvent(SubSeq(maskValue, 1, maskCaret - 1)
                      \o SubSeq(maskValue, maskCaret + 1, Len(maskValue)),
                    maskCaret - 1)

\* Delete: the character after the caret is deleted
MaskDelete ==
  /\ maskCaret < Len(maskValue)
  /\ MaskInputEvent(SubSeq(maskValue, 1, maskCaret)
                      \o SubSeq(maskValue, maskCaret + 2, Len(maskValue)),
                    maskCaret)

\* the user moves the caret with the keyboard or the mouse: no input event
MaskCaretMove(pos) ==
  /\ pos \in 0..Len(maskValue)
  /\ pos # maskCaret
  /\ maskCaret' = pos
  /\ maskBefore' = <<>>
  /\ maskStart' = 0
  /\ maskEvent' = FALSE
  /\ UNCHANGED <<maskKind, maskValue>>
  /\ MaskOthers

\* ----------------------------------------------------- updateElementIndex
\* the three copies of updateElementIndex differ in the pattern they build
Variants == {"part_003", "part_004", "part_005"}

Destinos == <<"d", "e", "s", "t", "i", "n", "o", "s">>
Placeholder == <<"_", "_", "p", "r", "e", "f", "i", "x", "_", "_">>

\* names a field of a formset element is rendered with
IdxNames ==
  {<<>>,
   Destinos \o <<"-">> \o Placeholder \o <<"-", "u", "f">>,
   Destinos \o <<"-", "0", "-", "u", "f">>,
   Destinos \o <<"-", "1", "2", "-", "u", "f">>}

DigitChar(n) == <<"0", "1", "2", "3", "4", "5", "6", "7", "8", "9">>[n + 1]

\* String(index)
IndexString(index) ==
  IF index < 10 THEN <<DigitChar(index)>>
  ELSE <<DigitChar(index \div 10), DigitChar(index % 10)>>

\* the characters the first alternative of the pattern repeats: the source
\* text `\\d` of parts 003 and 004 gives the pattern \d, the source text `\d`
\* of part 005 is the template-literal escape of the letter d
PatternClass(variant) == IF variant = "part_005" THEN {"d"} ELSE Digitos

StartsWith(text, p, s) ==
  /\ p + Len(s) - 1 <= Len(text)
  /\ SubSeq(text, p, p + Len(s) - 1) = s

RECURSIVE RunLength(_, _, _)
RunLength(text, p, class) ==
  IF p <= Len(text) /\ text[p] \in class
  THEN 1 + RunLength(text, p + 1, class) ELSE 0

\* length of the match of  prefix-(class+|__prefix__)-  at position p, 0 if none
MatchLength(text, p, prefix, class) ==
  IF ~StartsWith(text, p, prefix \o <<"-">>) THEN 0
  ELSE LET q == p + Len(prefix) + 1
           n == RunLength(text, q, class)
       IN IF n > 0 /\ q + n <= Len(text) /\ text[q + n] = "-"
          THEN Len(prefix) + n + 2
          ELSE IF StartsWith(text, q, Placeholder \o <<"-">>)
               THEN Len(prefix) + Len(Placeholder) + 2
               ELSE 0

\* text.replace(regex, replacement) with the flag g, from position p on
RECURSIVE ReplaceAll(_, _, _, _, _)
ReplaceAll(text, p, prefix, class, replacement) ==
  IF p > Len(text) THEN <<>>
  ELSE IF MatchLength(text, p, prefix, class) > 0
       THEN replacement
              \o ReplaceAll(text, p + MatchLength(text, p, prefix, class),
                            prefix, class, replacement)
       ELSE <<text[p]>> \o ReplaceAll(text, p + 1, prefix, class, replacement)

\* what one attribute becomes
Reindexed(text, index, prefix, variant) ==
  ReplaceAll(text, 1, prefix, PatternClass(variant),
             prefix \o <<"-">> \o IndexString(index) \o <<"-">>)

\* a formset element as rendered with the name name, under the copy variant
InitIdxWith(variant, name) ==
  /\ idxVariant = variant
  /\ idxName = name
  /\ idxId = (IF idxName = <<>> THEN <<>> ELSE <<"i", "d", "_">> \o idxName)
  /\ idxFor = idxId
  /\ idxData = -1
  /\ idxBefore = [name |-> <<>>, id |-> <<>>, for |-> <<>>]
  /\ idxCalled = -1

InitIdx == InitIdxWith("part_003", <<>>)

IdxOthers ==
  UNCHANGED <<formVars, diariasVars, dashVars, autoVars,
              estVars, cpfVars, svVars, unhandled, modalVars, cidVars, cepVars, maskVars,
              simVars, rgVars, motVars>>

UpdateElementIndex(index) ==
  /\ idxName' = Reindexed(idxName, index, Destinos, idxVariant)
  /\ idxId' = Reindexed(idxId, index, Destinos, idxVariant)
  /\ idxFor' = Reindexed(idxFor, index, Destinos, idxVariant)
  /\ idxData' = index
  /\ idxBefore' = [name |-> idxName, id |-> idxId, for |-> idxFor]
  /\ idxCalled' = index
  /\ UNCHANGED idxVariant
  /\ IdxOthers

\* ------------------------------------------------------ the simulation form
PeriodFields == {"tipo", "start_date", "start_time", "end_date", "end_time"}
\* the values typed in a field of a period card: a period starts at 08:00 and
\* ends at 08:00 or 09:00 of the same day
SimValues(field) ==
  IF field = "tipo" THEN {"", "INTERIOR"}
  ELSE IF field \in {"start_date", "end_date"} THEN {<<>>, <<0>>}
  ELSE IF field = "start_time" THEN {<<>>, <<8 * 60>>}
  ELSE {<<>>, <<8 * 60>>, <<9 * 60>>}

ErroCampos == "preencha todos os campos."
ErroOrdem == "inicio deve ser anterior ao fim."
ErroSemPeriodo == "Adicione ao menos um periodo para calcular."
ErroCorrija == "Corrija os periodos destacados para calcular."
ErroCalculo == "Nao foi possivel calcular as diarias."

\* createPeriodoCard(): the values of a card made without data
NovoPeriodo ==
  [tipo |-> "INTERIOR", start_date |-> <<>>, start_time |-> <<>>,
   end_date |-> <<>>, end_time |-> <<>>, erro |-> ""]

\* mutant: a period that ends when it starts passes
PeriodErrorLax(card) ==
  IF \/ card.tipo = ""
     \/ card.start_date = <<>> \/ card.start_time = <<>>
     \/ card.end_date = <<>> \/ card.end_time = <<>>
  THEN ErroCampos
  ELSE IF GetTime(ParseDateTime(card.end_date, card.end_time)[1])
            < GetTime(ParseDateTime(card.start_date, card.start_time)[1])
       THEN ErroOrdem
       ELSE ""

\* validatePeriodCard: the message it sets on the card, "" when it returns
\* the fields
PeriodError(card) ==
  IF \/ card.tipo = ""
     \/ card.start_date = <<>> \/ card.start_time = <<>>
     \/ card.end_date = <<>> \/ card.end_time = <<>>
  THEN ErroCampos
  ELSE IF GetTime(ParseDateTime(card.end_date, card.end_time)[1])
            <= GetTime(ParseDateTime(card.start_date, card.start_time)[1])
       THEN ErroOrdem
       ELSE ""

\* validatePeriodCard with setPeriodError
ValidatePeriodCard(card) == [card EXCEPT !.erro = PeriodError(card)]

\* getPeriodsPayload: the message of the error it throws, "" when it returns
PayloadError(cards) ==
  IF Len(cards) = 0 THEN ErroSemPeriodo
  ELSE IF \E i \in 1..Len(cards) : PeriodError(cards[i]) # "" THEN ErroCorrija
  ELSE ""

InitSim ==
  /\ simPeriodos = <<NovoPeriodo>>
  /\ simError = ""
  /\ simLoading = FALSE
  /\ simPending = 0
  /\ simResult = "-"
  /\ simLast = ""

SimOthers ==
  UNCHANGED <<formVars, diariasVars, dashVars, autoVars,
              estVars, cpfVars, svVars, unhandled, modalVars, cidVars, cepVars, maskVars,
              idxVars, rgVars, motVars>>

\* click on addPeriodoBtn
AddPeriodo ==
  /\ Len(simPeriodos) < MaxPeriodos
  /\ simPeriodos' = Append(simPeriodos, NovoPeriodo)
  /\ simLast' = ""
  /\ UNCHANGED <<simError, simLoading, simPending, simResult>>
  /\ SimOthers

\* click on the remove button of card i
RemovePeriodo(i) ==
  /\ i \in 1..Len(simPeriodos)
  /\ simPeriodos' = IF Len(simPeriodos) <= 1 THEN simPeriodos ELSE RemoveAt(simPeriodos, i)
  /\ simLast' = ""
  /\ UNCHANGED <<simError, simLoading, simPending, simResult>>
  /\ SimOthers

\* the cards whose fields are not the ones they were created with
Editados(cards) ==
  {i \in 1..Len(cards) : [cards[i] EXCEPT !.erro = ""] # NovoPeriodo}

\* input or change event of a field of card i
PeriodFieldInput(i, field, value) ==
  /\ i \in 1..Len(simPeriodos)
  /\ i \in Editados(simPeriodos) \/ Cardinality(Editados(simPeriodos)) < MaxPeriodosEditados
  /\ value # simPeriodos[i][field]
  /\ simPeriodos' = [simPeriodos EXCEPT ![i] = ValidatePeriodCard([@ EXCEPT ![field] = value])]
  /\ simLast' = ""
  /\ UNCHANGED <<simError, simLoading, simPending, simResult>>
  /\ SimOthers

\* submit of the form: calculate up to its await (the submit button is
\* disabled while a request is in flight)
SimCalculate ==
  /\ ~simLoading
  /\ simPeriodos' = [i \in 1..Len(simPeriodos) |-> ValidatePeriodCard(simPeriodos[i])]
  /\ IF PayloadError(simPeriodos) # ""
     THEN /\ simError' = PayloadError(simPeriodos)
          /\ simLast' = "blocked"
          /\ UNCHANGED <<simLoading, simPending>>
     ELSE /\ simError' = ""
          /\ simLoading' = TRUE
          /\ simPending' = simPending + 1
          /\ simLast' = "sent"
  /\ UNCHANGED simResult
  /\ SimOthers

\* the request settles with an OK response (renderResult, an unparsable body
\* renders an empty result)
SimResponseOk(payload) ==
  /\ simPending > 0
  /\ simPending' = simPending - 1
  /\ simResult' = payload
  /\ simLoading' = FALSE
  /\ simLast' = ""
  /\ UNCHANGED <<simPeriodos, simError>>
  /\ SimOthers

\* the request settles with a non-OK response or fails at the network
SimResponseFail(message) ==
  /\ simPending > 0
  /\ simPending' = simPending - 1
  /\ simError' = (IF message # "" THEN message ELSE ErroCalculo)
  /\ simResult' = "-"
  /\ simLoading' = FALSE
  /\ simLast' = ""
  /\ UNCHANGED simPeriodos
  /\ SimOthers

\* click on novaBtn: resetForNewSimulation
NovaSimulacao ==
  /\ simPeriodos' = <<NovoPeriodo>>
  /\ simError' = ""
  /\ simResult' = "-"
  /\ simLast' = ""
  /\ UNCHANGED <<simLoading, simPending>>
  /\ SimOthers

\* ------------------------------------------------------------- the RG mask
\* the characters of an RG as typed
RgTyped == {"1", "X"}
RgStrings(n) == UNION {[1..len -> RgTyped] : len \in 0..n}
IsRgChar(c) == c \in Digitos \cup {"X"}

\* normalizeRg (the text is already in upper case)
NormalizeRg(value) ==
  LET cleaned == SelectSeq(value, IsRgChar)
      digits == SelectSeq(cleaned, IsDigit)
  IN IF cleaned = <<>> THEN <<>>
     ELSE IF cleaned[Len(cleaned)] = "X" THEN Slice(digits, 0, 9) \o <<"X">>
     ELSE Slice(digits, 0, 10)

\* formatBase
FormatBase(base, firstGroupLen) ==
  IF base = <<>> THEN <<>>
  ELSE IF firstGroupLen = 1
  THEN LET b == Slice(base, 0, 7)
       IN IF Len(b) <= 1 THEN b
          ELSE IF Len(b) <= 4 THEN Slice(b, 0, 1) \o <<".">> \o SliceFrom(b, 1)
          ELSE Slice(b, 0, 1) \o <<".">> \o Slice(b, 1, 4) \o <<".">> \o SliceFrom(b, 4)
  ELSE LET b == Slice(base, 0, 8)
       IN IF Len(b) <= 2 THEN b
          ELSE IF Len(b) <= 5 THEN Slice(b, 0, 2) \o <<".">> \o SliceFrom(b, 2)
          ELSE Slice(b, 0, 2) \o <<".">> \o Slice(b, 2, 5) \o <<".">> \o SliceFrom(b, 5)

\* formatRg
FormatRg(value) ==
  LET canon == NormalizeRg(value)
      base == Slice(canon, 0, Len(canon) - 1)
      dv == SliceFrom(canon, Len(canon) - 1)
  IN IF canon = <<>> THEN <<>>
     ELSE IF Len(canon) <= 7 THEN FormatBase(canon, 1)
     ELSE IF Len(canon) = 8 THEN FormatBase(base, 1) \o <<"-">> \o dv
     ELSE IF Len(canon) = 9
       THEN IF dv = <<"X">> THEN FormatBase(base, 1) \o <<"-">> \o dv
            ELSE FormatBase(base, 2) \o <<"-">> \o dv
     ELSE FormatBase(base, 2) \o <<"-">> \o dv

\* an RG input holding the text value, the mask not yet run
InitRgWith(value) ==
  /\ rgValue = value
  /\ rgBefore = <<>>
  /\ rgEvents = 0

InitRg == InitRgWith(<<>>)

RgOthers ==
  UNCHANGED <<formVars, diariasVars, dashVars, autoVars,
              estVars, cpfVars, svVars, unhandled, modalVars, cidVars, cepVars, maskVars,
              idxVars, simVars, motVars>>

\* an input event on the RG input: applyWithCaret(input, formatRg, ...)
RgInputEvent ==
  /\ rgEvents < 2
  /\ rgValue' = FormatRg(rgValue)
  /\ rgBefore' = rgValue
  /\ rgEvents' = rgEvents + 1
  /\ RgOthers

\* ------------------------------------------------------- the driver lookup
MotoristaIds == {1, 2}
MotoristaNomes == {"", "Ana"}
NoMotorista == [id |-> 0, nome |-> "", cpf |-> ""]

\* the body /api/motoristas/<id>/ answers with for a driver that exists
MotoristaRecord(id) ==
  [id |-> id,
   nome |-> IF id = 1 THEN "Bruno" ELSE "Carla",
   cpf |-> IF id = 1 THEN "111" ELSE "222"]

\* isMotoristaCarona; the travellers are the selected options of the
\* traveller select
IsMotoristaCarona(select, manual) ==
  IF select = 0 /\ manual = "" THEN FALSE
  ELSE IF select # 0 THEN select \notin svSelected
  ELSE TRUE

\* updateMotoristaPreview: the name cell (with its carona suffix) and the
\* CPF cell
UpdateMotoristaPreview(select, manual, motorista) ==
  LET nome == IF manual # "" THEN manual ELSE motorista.nome
  IN [nome |-> IF nome # "" THEN nome ELSE "-",
      carona |-> nome # "" /\ IsMotoristaCarona(select, manual),
      cpf |-> IF motorista.cpf # "" THEN motorista.cpf ELSE "-"]

\* renderMotoristaChip(motorista): the data-id of the chip, "" for no chip
RenderMotoristaChip(motorista, manual) ==
  IF motorista.id # 0 THEN DigitChar(motorista.id)
  ELSE IF manual # "" THEN "manual"
  ELSE ""

InitMot ==
  /\ motoristaSelect = 0
  /\ motoristaNome = ""
  /\ currentMotorista = NoMotorista
  /\ motoristaChip = ""
  /\ motoristaPreview = UpdateMotoristaPreview(0, "", NoMotorista)
  /\ motoristaPending = {}
  /\ motoristaNextReq = 1

MotOthers ==
  UNCHANGED <<formVars, diariasVars, dashVars, autoVars,
              estVars, cpfVars, svVars, unhandled, modalVars, cidVars, cepVars, maskVars,
              idxVars, simVars, rgVars>>

\* change on the driver select, the user having picked the option id
\* (0 for the empty option)
MotoristaSelectChange(id) ==
  /\ id # motoristaSelect
  /\ motoristaSelect' = id
  /\ IF id = 0
       THEN /\ currentMotorista' = NoMotorista
            /\ motoristaChip' = IF motoristaNome = "" THEN "" ELSE motoristaChip
            /\ motoristaPreview' = UpdateMotoristaPreview(0, motoristaNome, NoMotorista)
            /\ UNCHANGED <<motoristaNome, motoristaPending, motoristaNextReq>>
       ELSE /\ motoristaNextReq <= MaxMotoristaLookups
            /\ motoristaNome' = ""
            /\ motoristaPending' =
                 motoristaPending \cup {[n |-> motoristaNextReq, id |-> id]}
            /\ motoristaNextReq' = motoristaNextReq + 1
            /\ UNCHANGED <<currentMotorista, motoristaChip, motoristaPreview>>
  /\ MotOthers

\* input on the manual driver-name input, its trimmed value now nome
MotoristaNomeInput(nome) ==
  /\ nome # motoristaNome
  /\ motoristaNome' = nome
  /\ motoristaSelect' = 0
  /\ currentMotorista' =
       IF motoristaSelect # 0 THEN NoMotorista ELSE currentMotorista
  /\ motoristaChip' = RenderMotoristaChip(NoMotorista, nome)
  /\ motoristaPreview' = UpdateMotoristaPreview(0, nome, currentMotorista')
  /\ UNCHANGED <<motoristaPending, motoristaNextReq>>
  /\ MotOthers

\* click on the chip's remove button: the manual name is emptied,
\* clearMotorista
MotoristaChipRemove ==
  /\ motoristaChip # ""
  /\ motoristaNome' = ""
  /\ currentMotorista' = NoMotorista
  /\ motoristaSelect' = 0
  /\ motoristaChip' = ""
  /\ motoristaPreview' = UpdateMotoristaPreview(0, "", NoMotorista)
  /\ UNCHANGED <<motoristaPending, motoristaNextReq>>
  /\ MotOthers

\* the lookup r is answered with the driver's record: data.id is set
MotoristaResponseOk(r) ==
  /\ r \in motoristaPending
  /\ motoristaPending' = motoristaPending \ {r}
  /\ currentMotorista' = MotoristaRecord(r.id)
  /\ motoristaChip' = RenderMotoristaChip(MotoristaRecord(r.id), motoristaNome)
  /\ motoristaPreview' =
       UpdateMotoristaPreview(motoristaSelect, motoristaNome, MotoristaRecord(r.id))
  /\ UNCHANGED <<motoristaSelect, motoristaNome, motoristaNextReq>>
  /\ MotOthers

\* the lookup r is answered with a JSON body without id: nothing is done
MotoristaResponseNoId(r) ==
  /\ r \in motoristaPending
  /\ motoristaPending' = motoristaPending \ {r}
  /\ UNCHANGED <<motoristaSelect, motoristaNome, currentMotorista, motoristaChip,
                 motoristaPreview, motoristaNextReq>>
  /\ MotOthers

\* the lookup r fails (network failure, a body that is not JSON): catch
MotoristaResponseFail(r) ==
  /\ r \in motoristaPending
  /\ motoristaPending' = motoristaPending \ {r}
  /\ currentMotorista' = NoMotorista
  /\ motoristaPreview' =
       UpdateMotoristaPreview(motoristaSelect, motoristaNome, NoMotorista)
  /\ UNCHANGED <<motoristaSelect, motoristaNome, motoristaChip, motoristaNextReq>>
  /\ MotOthers

NextMot ==
  \/ \E id \in MotoristaIds \cup {0} : MotoristaSelectChange(id)
  \/ \E nome \in MotoristaNomes : MotoristaNomeInput(nome)
  \/ MotoristaChipRemove
  \/ \E r \in motoristaPending : MotoristaResponseOk(r)
  \/ \E r \in motoristaPending : MotoristaResponseNoId(r)
  \/ \E r \in motoristaPending : MotoristaResponseFail(r)

InitLate == InitIdx /\ InitSim /\ InitRg /\ InitMot

\* -------------------------------------------------- the rest of the pages
InitPage ==
  /\ InitEst /\ InitCpf /\ InitSv /\ unhandled = {} /\ InitModal /\ InitCid /\ InitCep
  /\ InitMask /\ InitLate

\* ------------------------------------------------------------ specification
\* The form after initRoteiroFormset on a page rendered with the destination
\* entries ds and no home base: initDestinos indexes the entries,
\* regenerateTrechos derives the legs, resetDiariasData(false) and
\* setDiariasIdle put the panel in idle.
InitFormWith(ds) ==
  /\ destinos = ds
  /\ sede = [uf |-> "", cidade |-> ""]
  /\ trechos = RegenerateCards(destinos, sede, <<>>)
  /\ totalForms = SyncTrechosTotal(trechos)
  /\ dragItem = 0
  /\ retornoSaida = RetornoSaida(destinos)
  /\ retornoChegada = RetornoChegada(sede)
  /\ destinosTotal = UpdateDestinosTotal(destinos)
  /\ destinosOrder = SyncDestinosOrder(destinos)
  /\ tipoDestino = InferTipoDestino(destinos)
  /\ formPosted = FALSE
  /\ diariasState = [hasResult |-> FALSE, isStale |-> FALSE, isLoading |-> FALSE]
  /\ panelState = "idle"
  /\ panelVia = <<>>
  /\ buttonsDisabled = FALSE
  /\ calcErro = ""
  /\ resultado = "-"
  /\ camposOcultos = ""
  /\ pedidos = <<>>
  /\ inputsDrifted = FALSE
  /\ everDone = FALSE
  /\ lastOutcome = ""
  /\ lastGood = [resultado |-> "-", ocultos |-> ""]

\* a new form: the page has no destination entry, initDestinos adds one
InitForm == InitFormWith(<<[uf |-> "", cidade |-> "", idx |-> 0]>>)

Init == InitForm /\ InitDash /\ InitAuto /\ InitPage

\* Spec: destinations, home base and the legs derived from them, while no
\* date is entered and no calculation is requested
Next ==
  \/ AddDestino(MaxDestinos)
  \/ \E i \in 1..MaxDestinos, uf \in UFs \cup {""} : DestinoEstadoChange(i, uf)
  \/ \E i \in 1..MaxDestinos, c \in Cidades \cup {""} : DestinoCidadeChange(i, c)
  \/ \E i \in 1..MaxDestinos : RemoveDestino(i)
  \/ \E i \in 1..MaxDestinos : DragStart(i)
  \/ \E i \in 1..MaxDestinos, after \in BOOLEAN : DragOver(i, after)
  \/ DragEnd
  \/ \E uf \in UFs \cup {""} : SedeUfChange(uf)
  \/ \E c \in Cidades \cup {""} : SedeCidadeChange(c)
  \/ Submit

Spec == Init /\ [][Next]_vars

\* SpecDatas: destinations and the dates and times of the legs, the home base
\* left unset
NextDatas ==
  \/ AddDestino(MaxDestinosDatas)
  \/ \E i \in 1..MaxDestinosDatas, uf \in UFs \cup {""} : DestinoEstadoChange(i, uf)
  \/ \E i \in 1..MaxDestinosDatas, c \in Cidades \cup {""} : DestinoCidadeChange(i, c)
  \/ \E i \in 1..MaxDestinosDatas : RemoveDestino(i)
  \/ \E i \in 1..MaxDestinosDatas : DragStart(i)
  \/ \E i \in 1..MaxDestinosDatas, after \in BOOLEAN : DragOver(i, after)
  \/ DragEnd
  \/ \E i \in 1..MaxDestinosDatas, f \in DateFields, v \in DateVals \cup {""} :
       LegDateChange(i, f, v, MaxFilled)
  \/ Submit

SpecDatas == Init /\ [][NextDatas]_vars

\* SpecDiarias: the per-diem estimator of a form with one destination entry
NextDiarias ==
  \/ \E uf \in UFs \cup {""} : DestinoEstadoChange(1, uf)
  \/ \E c \in Cidades \cup {""} : DestinoCidadeChange(1, c)
  \/ RemoveDestino(1)
  \/ \E uf \in UFs \cup {""} : SedeUfChange(uf)
  \/ \E c \in Cidades \cup {""} : SedeCidadeChange(c)
  \/ \E f \in DateFields, v \in DateVals \cup {""} :
       LegDateChange(1, f, v, MaxFilledDiarias)
  \/ OtherInputChange
  \/ RequestDiariasCalculation
  \/ \E k \in 1..MaxPedidos, p \in Payloads : CalculationOk(k, p)
  \/ \E k \in 1..MaxPedidos, er \in {ErroServidor, ""} : CalculationNotOk(k, er)
  \/ \E k \in 1..MaxPedidos, m \in {ErroRede, ""} : CalculationNetworkError(k, m)

SpecDiarias == Init /\ [][NextDiarias]_vars

\* SpecDash: the dashboard's period buttons and the responses to its requests
NextDash ==
  \/ \E p \in Periodos : LoadPeriod(p)
  \/ \E r \in dashPending : LoadAborted(r)
  \/ \E r \in dashPending : LoadOk(r)
  \/ \E r \in dashPending : LoadFailed(r)

SpecDash == Init /\ [][NextDash]_vars

\* SpecAuto: the autocomplete widget of a single select
NextAuto ==
  \/ \E t \in Terms \cup {""} : AcInput(t)
  \/ AcFocus
  \/ AcTick
  \/ AcTimerFire
  \/ \E r \in acPending, hasItems \in BOOLEAN : AcResponseOk(r, hasItems)
  \/ \E r \in acPending : AcResponseFail(r)
  \/ AcEscape
  \/ AcCommit
  \/ AcOutsideClick
  \/ AcUfChange

SpecAuto == Init /\ [][NextAuto]_vars

\* the entries a page can be rendered with: lists of 1..n entries taken from
\* kinds, indexed by initDestinos
EntryLists(kinds, n) ==
  UNION {{[i \in 1..len |-> [uf |-> f[i].uf, cidade |-> f[i].cidade, idx |-> i - 1]] :
            f \in [1..len -> kinds]} : len \in 1..n}

\* an entry with nothing chosen, with only a state, with a state and a city
EntryKinds(ufs, cidadesDe) ==
  {[uf |-> "", cidade |-> ""]}
    \cup {[uf |-> uf, cidade |-> ""] : uf \in ufs}
    \cup UNION {{[uf |-> uf, cidade |-> c] : c \in cidadesDe[uf]} : uf \in ufs}

\* SpecTrim: the form is submitted on a page rendered with any entries
InitTrim ==
  /\ \E ds \in EntryLists(EntryKinds(UFs, CidadesDe), MaxTrimDestinos) : InitFormWith(ds)
  /\ InitDash
  /\ InitAuto
  /\ InitPage

NextTrim == Submit

SpecTrim == InitTrim /\ [][NextTrim]_vars

\* SpecTipo: the destination category of a page rendered with any entries,
\* which the user reorders
InitTipo ==
  /\ \E ds \in EntryLists(EntryKinds(UFsTipo, CidadesTipoDe) \ {[uf |-> uf, cidade |-> ""] : uf \in UFsTipo},
                         MaxTipoDestinos) : InitFormWith(ds)
  /\ InitDash
  /\ InitAuto
  /\ InitPage

NextTipo ==
  \/ \E i \in 1..MaxTipoDestinos : DragStart(i)
  \/ \E i \in 1..MaxTipoDestinos, after \in BOOLEAN : DragOver(i, after)
  \/ DragEnd

SpecTipo == InitTipo /\ [][NextTipo]_vars

\* SpecEst: the inputs of the leg-card form's estimate
NextEst ==
  \/ \E t \in Tipos \cup {""} : EstTipoChange(t)
  \/ \E d \in DatasEst : EstSaidaDataChange(d)
  \/ \E h \in HorasEst : EstSaidaHoraChange(h)
  \/ \E d \in DatasEst : EstChegadaDataChange(d)
  \/ \E h \in HorasEst : EstChegadaHoraChange(h)
  \/ \E n \in 0..MaxServidores : EstServidoresChange(n)

SpecEst == Init /\ [][NextEst]_vars


\* SpecCpf: a digit string is put in a CPF input and the two input listeners
\* run on it
InitCpfAny ==
  /\ InitForm /\ InitDash /\ InitAuto /\ InitEst /\ InitSv /\ unhandled = {}
  /\ InitModal /\ InitCid /\ InitCep /\ InitMask /\ InitLate
  /\ cpfRaw \in DigitStrings(MaxCpfDigitos)
  /\ cpfStage = "typed"
  /\ cpfMasked = <<>>
  /\ cpfFormatted = <<>>

NextCpf ==
  \/ CpfMaskListener
  \/ CpfFormatListener

SpecCpf == InitCpfAny /\ [][NextCpf]_vars


\* SpecSv: the travelers picker
NextSv ==
  \/ \E t \in SvTerms : SvInput(t)
  \/ SvFocus
  \/ SvTimerFire
  \/ \E r \in svPending, its \in ItemLists(MaxSvItems) : SvResponseOk(r, its)
  \/ \E r \in svPending : SvResponseFail(r)
  \/ SvArrowDown
  \/ SvArrowUp
  \/ SvEnter
  \/ SvEscape
  \/ \E i \in 1..MaxSvItems : SvClick(i)
  \/ SvOutsideClick
  \/ \E v \in Itens : AddServidorChip(v)
  \/ \E k \in 1..Cardinality(Itens) : RemoveServidorChip(k)
  \/ \E r \in svLoads : SvPreviewOk(r)
  \/ \E r \in svLoads : SvPreviewFail(r)

SpecSv == Init /\ [][NextSv]_vars


\* SpecModal: the modal controller
NextModal ==
  \/ ModalTriggerClick
  \/ \E r \in modalPending : ModalOpenOk(r)
  \/ \E r \in modalPending : ModalOpenFail(r)
  \/ ModalCloseClick
  \/ ModalSubmit
  \/ \E r \in modalPending, success \in BOOLEAN : ModalPostJson(r, success)
  \/ \E r \in modalPending : ModalPostHtml(r)
  \/ \E r \in modalPending : ModalPostFail(r)

SpecModal == Init /\ [][NextModal]_vars

\* SpecAsync: the asynchronous operations event handlers start: the traveler
\* preview, the city list, the requests of the modal controller
NextAsync ==
  \/ \E v \in Itens : AddServidorChip(v)
  \/ \E k \in 1..Cardinality(Itens) : RemoveServidorChip(k)
  \/ \E r \in svLoads : SvPreviewOk(r)
  \/ \E r \in svLoads : SvPreviewFail(r)
  \/ \E uf \in UFs \cup {""} : CidEstadoChange(uf)
  \/ \E r \in cidLoads : CidLoadOk(r)
  \/ \E r \in cidLoads : CidLoadFail(r)
  \/ NextModal

SpecAsync == Init /\ [][NextAsync]_vars


\* SpecCep: the CEP lookup of the configuration form
NextCep ==
  \/ \E t \in CepTexts : CepInput(t)
  \/ CepBlur
  \/ CepTimerFire
  \/ \E r \in cepPending, data \in CepPayloads : CepResponseOk(r, data)
  \/ \E r \in cepPending : CepResponseError(r)
  \/ \E f \in AddressFields, v \in TypedAddress : AddressInput(f, v)

SpecCep == Init /\ [][NextCep]_vars

\* SpecMask: edits of a masked input of either kind
InitMaskAny ==
  /\ InitForm /\ InitDash /\ InitAuto
  /\ InitEst /\ InitCpf /\ InitSv /\ unhandled = {} /\ InitModal /\ InitCid /\ InitCep
  /\ \E kind \in MaskKinds : InitMaskKind(kind)
  /\ InitLate

NextMask ==
  \/ \E c \in MaskTyped : MaskType(c)
  \/ MaskBackspace
  \/ MaskDelete
  \/ \E pos \in 0..(MaxMaskDigitos + 3) : MaskCaretMove(pos)

SpecMask == InitMaskAny /\ [][NextMask]_vars


\* SpecIdx: renumbering of one formset element
NextIdx == \E index \in 0..MaxIndex : UpdateElementIndex(index)

InitEarly ==
  /\ InitForm /\ InitDash /\ InitAuto
  /\ InitEst /\ InitCpf /\ InitSv /\ unhandled = {} /\ InitModal /\ InitCid /\ InitCep
  /\ InitMask

InitIdxAny ==
  /\ InitEarly /\ InitSim /\ InitRg /\ InitMot
  /\ \E variant \in Variants, name \in IdxNames : InitIdxWith(variant, name)

SpecIdx == InitIdxAny /\ [][NextIdx]_vars


\* SpecSim: the simulation form
NextSim ==
  \/ AddPeriodo
  \/ \E i \in 1..MaxPeriodos : RemovePeriodo(i)
  \/ \E i \in 1..MaxPeriodos, field \in PeriodFields :
       \E value \in SimValues(field) : PeriodFieldInput(i, field, value)
  \/ SimCalculate
  \/ \E payload \in {"vazio", "p1"} : SimResponseOk(payload)
  \/ \E message \in {ErroServidor, ""} : SimResponseFail(message)
  \/ NovaSimulacao

SpecSim == Init /\ [][NextSim]_vars


\* SpecCalc: the calculation requests of the estimator and of the simulation
\* form, every request in flight settling eventually
SettleDiarias ==
  \/ \E k \in 1..MaxPedidos, p \in Payloads : CalculationOk(k, p)
  \/ \E k \in 1..MaxPedidos, er \in {ErroServidor, ""} : CalculationNotOk(k, er)
  \/ \E k \in 1..MaxPedidos, m \in {ErroRede, ""} : CalculationNetworkError(k, m)

SettleSim ==
  \/ \E payload \in {"vazio", "p1"} : SimResponseOk(payload)
  \/ \E message \in {ErroServidor, ""} : SimResponseFail(message)

NextCalc ==
  \/ OtherInputChange
  \/ RequestDiariasCalculation
  \/ SettleDiarias
  \/ \E field \in PeriodFields :
       \E value \in SimValues(field) : PeriodFieldInput(1, field, value)
  \/ SimCalculate
  \/ SettleSim

SpecCalc == Init /\ [][NextCalc]_vars /\ WF_vars(SettleDiarias) /\ WF_vars(SettleSim)


\* SpecRg: the RG mask run twice on a typed or pasted text
InitRgAny ==
  /\ InitEarly /\ InitIdx /\ InitSim /\ InitMot
  /\ \E value \in RgStrings(MaxRgLen) : InitRgWith(value)

NextRg == RgInputEvent

SpecRg == InitRgAny /\ [][NextRg]_vars

SpecMot == Init /\ [][NextMot]_vars




\* ------------------------------------------------------------------ claims
NumValidDestinos ==
  Cardinality({i \in 1..Len(destinos) : destinos[i].uf # "" /\ destinos[i].cidade # ""})

\* C1: the number of leg cards is max(1, number of destinations that have both
\* state and city set), whatever destination and home-base operations came before.
C1_LegCount ==
  Len(trechos) = IF NumValidDestinos > 1 THEN NumValidDestinos ELSE 1

C1_Witness ==
  /\ Len(destinos) = 2
  /\ NumValidDestinos = 2
  /\ Len(trechos) = 2
  /\ dragItem = 0

\* C2: with at least one valid destination and no drag under way, leg 0 starts
\* at the home base, every later leg starts where the leg before it ends, and
\* leg i ends at the i-th valid destination in list order.
C2_RouteChain ==
  (dragItem = 0 /\ NumValidDestinos >= 1) =>
    LET valid == ValidDestinos(destinos)
    IN /\ Len(trechos) = Len(valid)
       /\ trechos[1].origem_estado = sede.uf
       /\ trechos[1].origem_cidade = sede.cidade
       /\ \A i \in 2..Len(trechos) :
            /\ trechos[i].origem_estado = trechos[i - 1].destino_estado
            /\ trechos[i].origem_cidade = trechos[i - 1].destino_cidade
       /\ \A i \in 1..Len(trechos) :
            /\ trechos[i].destino_estado = valid[i].uf
            /\ trechos[i].destino_cidade = valid[i].cidade

C2_Witness ==
  /\ dragItem = 0
  /\ NumValidDestinos = 2
  /\ destinos[1].idx = 1
  /\ sede.cidade # ""
  /\ destinos[1].uf # sede.uf
  /\ trechos[2].origem_cidade = destinos[1].cidade

\* the step is an edit of one date or time field of a leg
IsLegDateEdit ==
  /\ destinos' = destinos
  /\ \E i \in 1..Len(trechos), f \in DateFields, v \in DateVals \cup {""} :
       trechos' = [trechos EXCEPT ![i].datas[f] = v]

\* C3: a step that is not an edit of a leg's date or time keeps the dates and
\* times of every leg position that exists before and after it, and leaves
\* those of appended legs blank.
C3_DatesByPosition ==
  [][IsLegDateEdit \/
     \A i \in 1..Len(trechos') :
       trechos'[i].datas = IF i <= Len(trechos) THEN trechos[i].datas ELSE BlankDates]_vars

C3_Witness ==
  /\ dragItem = 0
  /\ Len(trechos) = 2
  /\ destinos[1].idx = 1
  /\ trechos[1].datas["saida_data"] # ""

\* C4: the leg cards carry the indices 0..n-1 in list order and TOTAL_FORMS is n.
C4_Indices ==
  /\ \A i \in 1..Len(trechos) : trechos[i].index = i - 1
  /\ totalForms = Len(trechos)

C4_Witness ==
  /\ Len(trechos) = 2
  /\ trechos[2].index = 1
  /\ totalForms = 2

AllowedPanelSteps ==
  {<<"idle", "loading">>, <<"stale", "loading">>, <<"loading", "done">>,
   <<"loading", "stale">>, <<"loading", "idle">>, <<"done", "stale">>}

\* the values the panel state takes in a step, from the one before the step
PanelPath == <<panelState>> \o panelVia' \o <<panelState'>>

\* C5: the panel state changes only along idle->loading, stale->loading,
\* loading->done, loading->stale, loading->idle and done->stale; done is entered
\* only when a request settles with an OK response; once the panel has been in
\* done it is never idle again.
C5_PanelTransitions ==
  [][/\ \A k \in 1..(Len(PanelPath) - 1) :
          \/ PanelPath[k] = PanelPath[k + 1]
          \/ <<PanelPath[k], PanelPath[k + 1]>> \in AllowedPanelSteps
     /\ \A k \in 2..Len(PanelPath) :
          /\ (PanelPath[k] = "done" /\ PanelPath[k - 1] # "done") =>
               (lastOutcome' = "ok" /\ Len(pedidos') = Len(pedidos) - 1)
          /\ everDone => PanelPath[k] # "idle"]_vars

C5_Witness ==
  /\ panelState = "loading"
  /\ panelVia = <<"stale">>
  /\ everDone

\* C6: when an input changed while a request was in flight and the request
\* settles with an OK response, the panel is not left in done.
C6_DriftNotDone == ~(panelState = "done" /\ inputsDrifted)

\* C7: after a failed request the panel is stale when a result existed before
\* and idle otherwise, the buttons are enabled and an error text is shown.
C7_FailureState ==
  lastOutcome = "failed" =>
    /\ panelState = IF everDone THEN "stale" ELSE "idle"
    /\ ~buttonsDisabled
    /\ calcErro # ""

C7_Witness ==
  /\ lastOutcome = "failed"
  /\ panelState = "stale"
  /\ calcErro = ErroPadrao

\* C8: after a failed request the rendered result and the hidden fields are
\* those the last OK response left.
C8_FailureKeepsEstimate ==
  (lastOutcome = "failed" /\ everDone) =>
    /\ resultado = lastGood.resultado
    /\ camposOcultos = lastGood.ocultos

C8_Witness ==
  /\ lastOutcome = "failed"
  /\ everDone
  /\ resultado = "p1"
  /\ camposOcultos = "p1"

\* C9: at most one calculation request is in flight, and while one is the
\* calculate and recalculate buttons are disabled.
C9_SingleRequest ==
  /\ Len(pedidos) <= 1
  /\ Len(pedidos) = 1 => (buttonsDisabled /\ diariasState.isLoading)

C9_Witness ==
  /\ Len(pedidos) = 1
  /\ everDone
  /\ inputsDrifted

\* C10: a new dashboard request aborts the one in flight, no response is
\* rendered after a newer request was issued, and once every request has
\* settled, the latest with an OK response, the period shown is the one
\* requested last.
C10_LatestWins ==
  /\ Cardinality({r \in dashPending : ~r.aborted}) <= 1
  /\ ~dashStaleRender
  /\ (dashPending = {} /\ (dashNextId - 1) \in dashOk) =>
       dashShown.periodo = currentPeriod

\* C11: no response is rendered after a newer query was sent, and once every
\* request has been answered the items held are those of the query sent last
\* (or none).
C11_LatestQueryWins ==
  /\ ~acStaleRender
  /\ (acPending = {} /\ acItems.req # 0) => acItems.req = acNextReq - 1

\* call i is the last of its burst: no call follows it within the wait
IsBurstEnd(i) ==
  i = Len(acCalls) \/ acCalls[i + 1].at - acCalls[i].at >= DebounceWait

\* the timer armed by call i, the last of its burst, is no longer waiting
BurstSettled(i) == i < Len(acCalls) \/ ~acTimer.armed

\* the runs of the debounced function that follow the burst ending in call i
RunsOfBurst(i) ==
  {j \in 1..Len(acRuns) :
     /\ acRuns[j].at > acCalls[i].at
     /\ i < Len(acCalls) => acRuns[j].at <= acCalls[i + 1].at}

\* C12: the debounced function runs once for each burst of calls, after the
\* wait has elapsed since the burst's last call and with that call's argument,
\* and it never runs inside a burst or without a call.
C12_DebounceTrailing ==
  /\ \A i \in 1..Len(acCalls) :
       IF IsBurstEnd(i)
       THEN /\ Cardinality(RunsOfBurst(i)) = IF BurstSettled(i) THEN 1 ELSE 0
            /\ \A j \in RunsOfBurst(i) :
                 /\ acRuns[j].term = acCalls[i].term
                 /\ acRuns[j].at >= acCalls[i].at + DebounceWait
       ELSE RunsOfBurst(i) = {}
  /\ Len(acRuns) = Cardinality({i \in 1..Len(acCalls) : IsBurstEnd(i) /\ BurstSettled(i)})

C12_Witness ==
  /\ Len(acCalls) = 3
  /\ acCalls[1].term # acCalls[2].term
  /\ acCalls[2].at - acCalls[1].at < DebounceWait
  /\ acCalls[3].at - acCalls[2].at >= DebounceWait
  /\ Len(acRuns) = 2
  /\ acRuns[1].term = acCalls[2].term

\* C13: the list of destinations is never empty.
C13_NeverEmpty == Len(destinos) >= 1

C13_Witness ==
  /\ Len(destinos) = 1
  /\ destinos[1].uf = "" /\ destinos[1].cidade = ""
  /\ destinos[1].idx = 1
  /\ formPosted

\* the comma-joined indices of the entries ds in list order
IndicesInOrder(ds) == JoinComma([i \in 1..Len(ds) |-> ToString(ds[i].idx)])

\* b holds the entries of a (state, city, index) in some order
IsReordering(a, b) ==
  /\ Len(a) = Len(b)
  /\ \E p \in Permutations(1..Len(a)) : \A i \in 1..Len(a) : b[i] = a[p[i]]

\* C14 as stated: once a drag has ended, the entry at position k carries index
\* k and the order field holds the comma-joined indices in list order.
C14_ReindexedAfterDrag ==
  dragItem = 0 =>
    /\ \A k \in 1..Len(destinos) : destinos[k].idx = k - 1
    /\ destinosOrder = IndicesInOrder(destinos)

\* C14 amended: a drag moves the entries without renumbering them (every entry
\* keeps the index it carried), and once the drag has ended the order field
\* holds the comma-joined indices of the entries in list order.
C14_DragKeepsIndices ==
  [][/\ dragItem # 0 => IsReordering(destinos, destinos')
     /\ dragItem' = 0 => destinosOrder' = IndicesInOrder(destinos')]_vars

C14_Witness ==
  /\ dragItem = 0
  /\ Len(destinos) = 2
  /\ destinos[1].idx = 1
  /\ destinos[2].idx = 0
  /\ destinosOrder = "1,0"

\* C15: when the form is collected to be posted (submit, or a calculation
\* request), the indices of the entries are exactly 0..n-1, each once, n being
\* the destinations TOTAL_FORMS.
C15_PostedIndices ==
  formPosted =>
    /\ Len(destinos) = destinosTotal
    /\ {destinos[k].idx : k \in 1..Len(destinos)} = 0..(destinosTotal - 1)

\* C16 as stated: every entry has both state and city set or neither.
C16_EmptyOrSet ==
  \A i \in 1..Len(destinos) : (destinos[i].uf = "") <=> (destinos[i].cidade = "")

\* C16 amended: an entry may have only its state set; a change of an entry's
\* state (the entries staying in place) leaves that entry without a city:
\* fully empty when the state was cleared, with only the state set otherwise.
C16_StateChangeClearsCity ==
  [][(dragItem = 0 /\ dragItem' = 0 /\ Len(destinos') = Len(destinos)) =>
       \A i \in 1..Len(destinos) :
         destinos'[i].uf # destinos[i].uf => destinos'[i].cidade = ""]_vars

C16_Witness ==
  /\ dragItem = 0
  /\ Len(destinos) = 2
  /\ destinos[1].uf = "DF" /\ destinos[1].cidade = ""
  /\ destinos[2].uf = "PR" /\ destinos[2].cidade = "c1"
  /\ Len(trechos) = 1

\* C17: with no valid destination there is one leg, its destination is blank
\* and its origin is the home base.
C17_BlankLegFromSede ==
  (dragItem = 0 /\ NumValidDestinos = 0) =>
    /\ Len(trechos) = 1
    /\ trechos[1].destino_estado = "" /\ trechos[1].destino_cidade = ""
    /\ trechos[1].origem_estado = sede.uf
    /\ trechos[1].origem_cidade = sede.cidade

\* the entry has neither a state nor a city
IsBlankEntry(d) == d.uf = "" /\ d.cidade = ""

\* C18: the handler that trims leaves the list with one entry or with a last
\* entry that has a state or a city; what it leaves is the start of the old
\* list (order kept, empty entries before a non-empty one kept), and every
\* entry it removed was fully empty.
C18_TrimOnlyTrailingEmpty ==
  [][formPosted' =>
       /\ Len(destinos') = 1 \/ ~IsBlankEntry(destinos'[Len(destinos')])
       /\ Len(destinos') >= 1
       /\ Len(destinos') <= Len(destinos)
       /\ \A i \in 1..Len(destinos') : destinos'[i] = destinos[i]
       /\ \A i \in (Len(destinos') + 1)..Len(destinos) : IsBlankEntry(destinos[i])]_vars

C18_Witness ==
  /\ formPosted
  /\ Len(destinos) = 2
  /\ IsBlankEntry(destinos[1])
  /\ ~IsBlankEntry(destinos[2])
  /\ destinosTotal = 2

\* C19: when no drag is under way the return leg leaves from the label of the
\* last valid destination in list order (blank when there is none) and
\* arrives at the label of the home base.
C19_RetornoFields ==
  dragItem = 0 =>
    LET valid == ValidDestinos(CollectDestinosData(destinos))
    IN /\ retornoSaida = IF Len(valid) = 0 THEN <<>> ELSE valid[Len(valid)].label
       /\ retornoChegada = GetSedeLabel(sede)

C19_Witness ==
  /\ dragItem = 0
  /\ NumValidDestinos = 2
  /\ destinos[2].idx = 0
  /\ retornoSaida = <<"Brasília", "DF">>
  /\ retornoChegada = <<"Curitiba", "PR">>

\* the entry is the federal capital; the entry's city name is a capital's
IsBrasilia(d) == d.uf = "DF" /\ CidadeBase(d.label) = "BRASILIA"
IsCapital(d) == CidadeBase(d.label) \in CAPITAIS

\* C20: with at least one valid destination the category is BRASILIA when
\* some valid destination is DF/Brasilia, else CAPITAL when some valid
\* destination's city name is a state capital's, else INTERIOR, whatever the
\* order of the list.
C20_Classification ==
  (dragItem = 0 /\ NumValidDestinos >= 1) =>
    LET valid == ValidDestinos(CollectDestinosData(destinos))
        S == {valid[i] : i \in 1..Len(valid)}
    IN tipoDestino = IF \E d \in S : IsBrasilia(d) THEN "BRASILIA"
                     ELSE IF \E d \in S : IsCapital(d) THEN "CAPITAL"
                     ELSE "INTERIOR"

C20_Witness ==
  /\ dragItem = 0
  /\ Len(destinos) = 3
  /\ destinos[1].cidade = "c4" /\ destinos[1].idx = 2
  /\ destinos[2].cidade = "c3"
  /\ destinos[3].cidade = "c2"
  /\ tipoDestino = "BRASILIA"

\* the inputs of the estimate as the form holds them: minutes of a time input
\* ("00:00" when empty), minutes from departure to arrival, units and tier a
\* quantity text shows
EstMin(h) == IF h = <<>> THEN 0 ELSE h[1]
EstHasInputs == estTipoDestino # "" /\ estSaidaData # <<>> /\ estChegadaData # <<>>
EstElapsed ==
  (estChegadaData[1] - estSaidaData[1]) * 24 * 60
    + EstMin(estChegadaHora) - EstMin(estSaidaHora)
FullUnitsOf(partes) ==
  IF \E i \in 1..Len(partes) : partes[i].pct = 100
  THEN (CHOOSE q \in {partes[i] : i \in 1..Len(partes)} : q.pct = 100).n
  ELSE 0
TierOf(partes) ==
  IF \E i \in 1..Len(partes) : partes[i].pct # 100
  THEN (CHOOSE q \in {partes[i] : i \in 1..Len(partes)} : q.pct # 100).pct
  ELSE 0

\* C21: with a positive elapsed time the estimate has floor(elapsed / 24h)
\* full units and a partial tier of 0% for a remainder of at most 6h, 15% for
\* one over 6h and at most 8h, 30% for one over 8h; an arrival on another
\* calendar date less than 24h after the departure gives 1 full unit and no
\* partial. The hidden quantity shows it, and so does the preview when a
\* traveler is selected.
C21_UnitsAndTier ==
  (EstHasInputs /\ EstElapsed > 0) =>
    LET nextDay == estChegadaData # estSaidaData /\ EstElapsed < 24 * 60
        full == IF nextDay THEN 1 ELSE EstElapsed \div (24 * 60)
        rem == EstElapsed % (24 * 60)
        tier == IF nextDay THEN 0
                ELSE IF rem <= 6 * 60 THEN 0
                ELSE IF rem <= 8 * 60 THEN 15 ELSE 30
    IN /\ FullUnitsOf(quantidadeDiarias) = full
       /\ TierOf(quantidadeDiarias) = tier
       /\ Len(quantidadeDiarias) = (IF full > 0 THEN 1 ELSE 0) + (IF tier > 0 THEN 1 ELSE 0)
       /\ estServidores > 0 => diariasPreview.partes = quantidadeDiarias

\* 31h: 1 full unit and 15%
C21_Witness ==
  /\ estTipoDestino = "INTERIOR"
  /\ estSaidaData = <<0>> /\ estSaidaHora = <<0>>
  /\ estChegadaData = <<1>> /\ estChegadaHora = <<7 * 60>>
  /\ quantidadeDiarias = <<[n |-> 1, pct |-> 100], [n |-> 1, pct |-> 15]>>

\* C22 as stated: the per-traveler value is full units x full rate plus the
\* fraction (0, 0.15, 0.30) of the full rate, rounded to the cent, and the
\* total is the per-traveler value x the number of selected travelers.
C22_FractionOfFullRate ==
  (EstHasInputs /\ EstElapsed > 0) =>
    LET rate == Tabela[estTipoDestino].full
        porServidor == FullUnitsOf(quantidadeDiarias) * rate
                         + (TierOf(quantidadeDiarias) * rate + 50) \div 100
    IN /\ valorDiarias = <<porServidor * estServidores>>
       /\ estServidores > 0 =>
            /\ diariasPreview.porServidor = <<porServidor>>
            /\ diariasPreview.total = <<porServidor * estServidores>>

\* C22 amended: the per-traveler value is full units x full rate plus the
\* category's fixed amount for the partial tier (nothing, its 15% amount, its
\* 30% amount), and the total is the per-traveler value x the number of
\* selected travelers.
C22_TableRates ==
  (EstHasInputs /\ EstElapsed > 0) =>
    LET t == Tabela[estTipoDestino]
        tier == TierOf(quantidadeDiarias)
        porServidor == FullUnitsOf(quantidadeDiarias) * t.full
                         + (IF tier = 15 THEN t.p15 ELSE IF tier = 30 THEN t.p30 ELSE 0)
    IN /\ valorDiarias = <<porServidor * estServidores>>
       /\ estServidores > 0 =>
            /\ diariasPreview.porServidor = <<porServidor>>
            /\ diariasPreview.total = <<porServidor * estServidores>>

\* 40h to Brasilia, 2 travelers: (468.12 + 140.43) x 2
C22_Witness ==
  /\ estTipoDestino = "BRASILIA"
  /\ estServidores = 2
  /\ EstHasInputs
  /\ EstElapsed = 40 * 60
  /\ valorDiarias = <<121710>>
  /\ diariasPreview.total = <<121710>>

\* C23: without a category, a departure date or an arrival date, or with an
\* arrival that is not after the departure, the estimate is empty: no
\* quantity, no value, and the preview shows its placeholder.
C23_EmptyEstimate ==
  (~EstHasInputs \/ EstElapsed <= 0) =>
    /\ quantidadeDiarias = <<>>
    /\ valorDiarias = <<>>
    /\ diariasPreview = PreviewVazio

\* arrival at the very minute of the departure
C23_Witness ==
  /\ EstHasInputs
  /\ estServidores = 2
  /\ EstElapsed = 0
  /\ quantidadeDiarias = <<>>
  /\ valorDiarias = <<>>

\* the number of digit characters of a text
NumDigits(t) == Len(SelectSeq(t, LAMBDA c : c \in Digitos))

\* C24: formatting the CPF mask's output again returns it unchanged, and the
\* mask's output has min(11, number of digits of the input) digit characters.
C24_CpfIdempotent ==
  /\ cpfStage \in {"masked", "formatted"} =>
       NumDigits(cpfMasked) = Min(11, NumDigits(cpfRaw))
  /\ cpfStage = "formatted" => cpfFormatted = cpfMasked

\* twelve digits: the twelfth is dropped
C24_Witness ==
  /\ cpfStage = "formatted"
  /\ cpfRaw = <<"1", "2", "1", "2", "1", "2", "1", "2", "1", "2", "1", "2">>
  /\ cpfFormatted =
       <<"1", "2", "1", ".", "2", "1", "2", ".", "1", "2", "1", "-", "2", "1">>

\* C25: the active index is -1 exactly when the item list is empty and
\* otherwise lies in 0..n-1; ArrowDown on the last item and ArrowUp on the
\* first leave it as it is; Enter commits one of the items of the list.
C25_ActiveIndex ==
  /\ [](/\ (svActiveIndex = -1) <=> (svItems = <<>>)
        /\ svItems # <<>> => svActiveIndex \in 0..(Len(svItems) - 1))
  /\ [][/\ (svKey' = "ArrowDown" /\ svActiveIndex = Len(svItems) - 1)
             => svActiveIndex' = svActiveIndex
        /\ (svKey' = "ArrowUp" /\ svActiveIndex = 0) => svActiveIndex' = svActiveIndex
        /\ svKey' = "Enter" => \E i \in 1..Len(svItems) : svCommitted' = svItems[i]]_vars

\* ArrowDown with the second of two items active
C25_Witness ==
  /\ svKey = "ArrowDown"
  /\ Len(svItems) = 2
  /\ svActiveIndex = 1
  /\ svList[2].active

\* C26: committing an item that is already selected, by click or by Enter,
\* leaves the options and the selected options as they are and dispatches no
\* change event (nor does addServidorChip of a selected traveler, which only
\* raises its toast); no two selected options have the same value.
C26_NoRecommit ==
  /\ [](\A i, j \in 1..Len(svOptions) :
          (i # j /\ svOptions[i] \in svSelected) => svOptions[i] # svOptions[j])
  /\ [][/\ (svCommitted' # "" /\ svCommitted' \in svSelected)
             => (svSelected' = svSelected /\ svOptions' = svOptions /\ ~svChanged')
        /\ svToast' => (svSelected' = svSelected /\ ~svChanged')]_vars

\* Enter on an item that was already selected
C26_Witness ==
  /\ svKey = "Enter"
  /\ svCommitted = "s1"
  /\ ~svChanged
  /\ svSelected = {"s1"}
  /\ svOptions = <<"s1">>

\* C27: a network failure of a request of the modal controller, the fetch
\* that opens the modal or the POST of its form, closes the modal (root
\* emptied, body class removed) and raises a notification.
C27_FailureClosesModal ==
  modalLast \in {"openFail", "postFail"} =>
    /\ modalRoot = ""
    /\ ~bodyModalOpen
    /\ modalToast = "error"

\* C28: no asynchronous operation started by an event handler ends in an
\* unhandled rejection.
C28_NoUnhandledRejection == unhandled = {}

\* C29: a CEP lookup that is answered with an error (non-OK status, error
\* field, network failure) sets the status to the not-found message and
\* leaves the street, district, city and state fields as they were; a lookup
\* is only ever started for a CEP of exactly 8 digits.
C29_ErrorKeepsAddress ==
  /\ [](\A r \in cepPending : Len(r.digits) = 8)
  /\ [][/\ cepLast' = "error" =>
             /\ cepStatus' = StatusNaoEncontrado
             /\ endereco' = endereco
        /\ cepNextId' # cepNextId =>
             /\ Len(CepDigits(cepInput)) = 8
             /\ cepPending' \ cepPending =
                  {[id |-> cepNextId, digits |-> CepDigits(cepInput)]}
        /\ Len(CepDigits(cepInput)) # 8 => cepPending' \subseteq cepPending]_vars

\* a lookup failed while the address fields held the answer of an earlier one
C29_Witness ==
  /\ cepLast = "error"
  /\ cepStatus = StatusNaoEncontrado
  /\ endereco = [logradouro |-> "Rua A", bairro |-> "Centro",
                 cidade |-> "Curitiba", uf |-> "PR"]

\* the caret the claim of C30 asks for in the reformatted text after, for a
\* caret that had k token characters to its left
CaretAfterTokens(after, k, caret) ==
  IF k = 0 THEN caret = 0
  ELSE IF Len(SelectSeq(after, IsDigit)) < k THEN caret = Len(after)
  ELSE /\ caret \in 1..Len(after)
       /\ IsDigit(after[caret])
       /\ Len(SelectSeq(SubSeq(after, 1, caret), IsDigit)) = k

\* C30: after the input listener of a masked input ran on an edit that left
\* k token characters before the caret: if the formatter returns the text
\* unchanged, value and caret are the ones the edit left; otherwise the value
\* is the reformatted text and the caret stands right after its k-th token
\* character (at 0 when k = 0, at the end when it has fewer than k).
C30_CaretAfterTokens ==
  maskEvent =>
    LET k == Len(SelectSeq(SubSeq(maskBefore, 1, maskStart), IsDigit))
        after == Formatter(maskKind, maskBefore)
    IN IF after = maskBefore
       THEN maskValue = maskBefore /\ maskCaret = maskStart
       ELSE maskValue = after /\ CaretAfterTokens(after, k, maskCaret)

\* the fourth digit of a CPF was typed: the caret moves past the inserted dot
C30_Witness ==
  /\ maskEvent
  /\ maskKind = "cpf"
  /\ maskBefore = <<"1", "1", "1", "1">>
  /\ maskStart = 4
  /\ maskValue = <<"1", "1", "1", ".", "1">>
  /\ maskCaret = 5

\* what the claim of C31 asks an attribute to become: every prefix-<digits>-
\* and prefix-__prefix__- in it replaced by prefix-index-
Renumbered(text, index) ==
  ReplaceAll(text, 1, Destinos, Digitos,
             Destinos \o <<"-">> \o IndexString(index) \o <<"-">>)

\* C31: in every copy of updateElementIndex, after a call with index j the
\* name, id and for of the element's fields have every prefix-<digits>- and
\* prefix-__prefix__- rewritten to prefix-j-, and data-index is j.
C31_Renumbered ==
  idxCalled >= 0 =>
    /\ idxName = Renumbered(idxBefore.name, idxCalled)
    /\ idxId = Renumbered(idxBefore.id, idxCalled)
    /\ idxFor = Renumbered(idxBefore.for, idxCalled)
    /\ idxData = idxCalled

\* C32: in every state of the per-diem estimator, isLoading and isStale are
\* not both true, isStale implies hasResult, the calculate and recalculate
\* buttons are disabled exactly when isLoading, and the panel's state is
\* loading iff isLoading, stale iff isStale, done iff hasResult and neither
\* loading nor stale, idle iff no result and not loading.
C32_StateConsistent ==
  /\ ~(diariasState.isLoading /\ diariasState.isStale)
  /\ diariasState.isStale => diariasState.hasResult
  /\ buttonsDisabled <=> diariasState.isLoading
  /\ panelState = "loading" <=> diariasState.isLoading
  /\ panelState = "stale" <=> diariasState.isStale
  /\ panelState = "done" <=>
       (diariasState.hasResult /\ ~diariasState.isLoading /\ ~diariasState.isStale)
  /\ panelState = "idle" <=> (~diariasState.hasResult /\ ~diariasState.isLoading)

\* a recalculation is in flight over a result an input change had made stale
C32_Witness ==
  /\ diariasState = [hasResult |-> TRUE, isStale |-> FALSE, isLoading |-> TRUE]
  /\ panelVia = <<"stale">>
  /\ panelState = "loading"
  /\ buttonsDisabled

\* a period with its type, start date, start time, end date and end time set
\* and its end strictly after its start
PeriodoValido(card) ==
  /\ card.tipo # ""
  /\ card.start_date # <<>> /\ card.start_time # <<>>
  /\ card.end_date # <<>> /\ card.end_time # <<>>
  /\ card.end_date[1] * 24 * 60 + card.end_time[1]
       > card.start_date[1] * 24 * 60 + card.start_time[1]

\* C39: the simulation form sends a calculation request only on a submit that
\* finds at least one period and every period valid; a submit that finds an
\* invalid period sends nothing, marks exactly the invalid periods and shows
\* an error message; the list never has fewer than one period.
C39_ValidatedRequest ==
  /\ [](Len(simPeriodos) >= 1)
  /\ [](simLast = "blocked" =>
          /\ simError # ""
          /\ \A i \in 1..Len(simPeriodos) :
               simPeriodos[i].erro # "" <=> ~PeriodoValido(simPeriodos[i]))
  /\ [][/\ simPending' > simPending =>
             /\ simLast' = "sent"
             /\ Len(simPeriodos) >= 1
             /\ \A i \in 1..Len(simPeriodos) : PeriodoValido(simPeriodos[i])
        /\ simLast' = "blocked" => simPending' = simPending
        /\ simLast' = "sent" => simPending' = simPending + 1]_vars

\* a submit was blocked by a blank second period next to a valid first one
C39_Witness ==
  /\ simLast = "blocked"
  /\ Len(simPeriodos) = 2
  /\ PeriodoValido(simPeriodos[1])
  /\ simPeriodos[1].erro = ""
  /\ simPeriodos[2].erro = ErroCampos
  /\ simError = ErroCorrija
  /\ simPending = 0

\* C33: when every request settles, an estimator that is loading eventually
\* is not, with its panel in done, stale or idle and its buttons enabled, and
\* a simulation form that is loading eventually has its button enabled again.
C33_LeavesLoading ==
  /\ diariasState.isLoading ~>
       (/\ ~diariasState.isLoading
        /\ panelState \in {"done", "stale", "idle"}
        /\ ~buttonsDisabled)
  /\ simLoading ~> (~simLoading /\ simPending = 0)

\* both forms have had a request fail and have left loading
C33_Witness ==
  /\ lastOutcome = "failed"
  /\ panelState = "idle"
  /\ ~diariasState.isLoading
  /\ ~buttonsDisabled
  /\ simError = ErroCalculo
  /\ ~simLoading
  /\ simPending = 0

\* an amount field as a number of cents, nothing being no amount
Centavos(valor) == IF valor = <<>> THEN 0 ELSE valor[1]
\* full units and partial tier as hundredths of a unit
Centesimos(partes) == FullUnitsOf(partes) * 100 + TierOf(partes)
\* the arrivals before the one the form holds
ChegadasAnteriores ==
  {c \in DatasEst \X HorasEst :
     /\ c[1] # <<>>
     /\ c[1][1] * 24 * 60 + EstMin(c[2])
          < estChegadaData[1] * 24 * 60 + EstMin(estChegadaHora)}

\* C34: with the departure, the category and the number of travelers the form
\* holds, no earlier arrival gives more units or a larger total than the
\* arrival the form holds, in the hidden fields and in the preview.
C34_MonotoneInArrival ==
  EstHasInputs =>
    \A c \in ChegadasAnteriores, err \in Arredondamento :
      LET saidaDt == ParseDateTime(estSaidaData, estSaidaHora)
          antes == CalcularDiarias(estTipoDestino, saidaDt,
                                   ParseDateTime(c[1], c[2]), estServidores, err)
          previa == DiariasPreview(estTipoDestino, saidaDt,
                                   ParseDateTime(c[1], c[2]), estServidores, err)
      IN /\ Centesimos(antes.quantidade) <= Centesimos(quantidadeDiarias)
         /\ Centavos(antes.valorTotal) <= Centavos(valorDiarias)
         /\ Centesimos(previa.partes) <= Centesimos(diariasPreview.partes)
         /\ Centavos(previa.total) <= Centavos(diariasPreview.total)

\* an arrival half an hour after midnight, 4h30 after the departure: one full
\* unit, where the arrivals of the evening before gave none
C34_Witness ==
  /\ estTipoDestino = "CAPITAL"
  /\ estServidores = 1
  /\ estSaidaData = <<0>> /\ estSaidaHora = <<20 * 60>>
  /\ estChegadaData = <<1>> /\ estChegadaHora = <<>>
  /\ quantidadeDiarias = <<[n |-> 1, pct |-> 100]>>
  /\ valorDiarias = <<37126>>

\* C35: with a traveler selected, the hidden fields and the preview show the
\* same estimate: both empty or both with the same full units, the same
\* partial tier and the same total.
C35_HiddenMatchesPreview ==
  estServidores > 0 =>
    /\ diariasPreview.vazio <=> valorDiarias = <<>>
    /\ diariasPreview.vazio => quantidadeDiarias = <<>>
    /\ ~diariasPreview.vazio =>
         /\ FullUnitsOf(diariasPreview.partes) = FullUnitsOf(quantidadeDiarias)
         /\ TierOf(diariasPreview.partes) = TierOf(quantidadeDiarias)
         /\ diariasPreview.total = valorDiarias

\* 6h01 on one day, a duration that is not a whole number of hours
C35_Witness ==
  /\ estServidores = 2
  /\ EstHasInputs
  /\ estChegadaData = estSaidaData
  /\ EstElapsed = 6 * 60 + 1
  /\ TierOf(quantidadeDiarias) = 15
  /\ TierOf(diariasPreview.partes) = 15
  /\ diariasPreview.total = valorDiarias

\* C36: the RG mask is idempotent: the second input event on a text over
\* digits and X leaves the value the first one formatted.
C36_RgIdempotent == rgEvents = 2 => rgValue = rgBefore

\* C37: while the most recent dashboard request is in flight and has not been
\* superseded, the root carries is-loading.
C37_LoadingWhileInFlight ==
  (\E r \in dashPending : r.id = dashNextId - 1 /\ ~r.aborted) => dashLoading

\* C38: once every driver lookup has settled, the record held by the form is
\* null or the record of the driver selected in the select.
C38_CurrentIsSelected ==
  motoristaPending = {} =>
    \/ currentMotorista = NoMotorista
    \/ currentMotorista.id = motoristaSelect

====
